---- MODULE Spec2Model ----
(***************************************************************************)
(* A model of brouwer::Parser (src/src/Parser.cpp): the character cursor   *)
(* with its rewind queue, the indentation tracker, the terminal matchers,  *)
(* the grammar productions and the block parser.                           *)
(*                                                                         *)
(* A character is a string of length one, a text a sequence of characters. *)
(* The parser object is a record s with the fields of class Parser         *)
(* (ch, charhistory, currentindent; charstream is the unread rest of the   *)
(* file and eof the stream's eofbit) and history fields that the code does *)
(* not have and never reads to decide anything:                            *)
(*   lineprefix  the blanks read since the last newline character          *)
(*   log         the calls made so far, each with the cursor before/after  *)
(*   fuel        the loop passes and nested expressions still allowed      *)
(*   ub          what a read of an empty vector's back() does in the build *)
(* Every production returns a record [s, ok, ast, err]: ok with ast on a   *)
(* match, ~ok with err = NoErr on no-match (std::nullopt), err # NoErr when*)
(* an exception leaves the call.                                           *)
(***************************************************************************)
EXTENDS Naturals, Sequences, FiniteSets

VARIABLES input, ubOutcome, ch, charhistory, charstream, eof, currentindent,
          lineprefix, log, visited, pc, prog, result, err

vars == <<input, ubOutcome, ch, charhistory, charstream, eof, currentindent,
          lineprefix, log, visited, pc, prog, result, err>>

(***************************************************************************)
(* Character classes of <ctype.h> in the "C" locale, and the tables.       *)
(***************************************************************************)
Lower == {"a","b","c","d","e","f","g","h","i","j","k","l","m",
          "n","o","p","q","r","s","t","u","v","w","x","y","z"}
Upper == {"A","B","C","D","E","F","G","H","I","J","K","L","M",
          "N","O","P","Q","R","S","T","U","V","W","X","Y","Z"}
Digit == {"0","1","2","3","4","5","6","7","8","9"}

isalpha(c) == c \in Lower \cup Upper
isdigit(c) == c \in Digit
isalnum(c) == isalpha(c) \/ isdigit(c)
isblank(c) == c \in {" ", "\t"}
isspace(c) == c \in {" ", "\t", "\n", "\r", "\f"}
isnewline(c) == c \in {"\n", "\r"}

\* esc_chars without the escape of the NUL character.
esc_chars_no_nul == {"'", "\"", "t", "v", "n", "r", "b"}

esc_chars == {"'", "\"", "t", "v", "n", "r", "b", "0"}

op_chars == {"?", "<", ">", "=", "%", "\\", "~", "!",
             "@", "#", "$", "|", "&", "*", "/", "+",
             "^", "-", ":", ";"}

reserved_ops == {<<":">>, <<"-", ">">>, <<"=", ">">>, <<"<", "-">>,
                 <<"-", "-">>, <<"|">>, <<"\\">>, <<"=">>,
                 <<".">>, <<":", ":">>}

\* The grave accent cannot be written in a string of this language.
Backtick == "grave"

(***************************************************************************)
(* Outcomes that are neither a value nor a C++ exception.                  *)
(***************************************************************************)
NoErr == ""
Diverged == "<diverged>"     \* a loop or a recursion repeats with the same cursor
Crashed == "<crashed>"       \* the undefined read faults
FuelOut == "<fuel>"          \* the model gave up (never with the inputs below)

(***************************************************************************)
(* Tree<Token>: a node is its token (type, lexeme) and its children.       *)
(***************************************************************************)
Leaf(type, lexeme) == [type |-> type, lexeme |-> lexeme, children |-> <<>>]
Node(type) == [type |-> type, lexeme |-> <<>>, children |-> <<>>]
add_child(ast, child) == [ast EXCEPT !.children = Append(@, child)]
NoAST == Node("none")

Match(s, ast) == [s |-> s, ok |-> TRUE, ast |-> ast, err |-> NoErr]
NoMatch(s) == [s |-> s, ok |-> FALSE, ast |-> NoAST, err |-> NoErr]
Throw(s, msg) == [s |-> s, ok |-> FALSE, ast |-> NoAST, err |-> msg]
Threw(r) == r.err # NoErr

(***************************************************************************)
(* The cursor: what the code can observe of the parser object.             *)
(***************************************************************************)
Cur(s) == [ch |-> s.ch, charhistory |-> s.charhistory,
           charstream |-> s.charstream, eof |-> s.eof,
           currentindent |-> s.currentindent]

Rem(c) == <<c.ch>> \o c.charhistory \o c.charstream

Ev(s, e) == [s EXCEPT !.log = Append(@, e)]

Call(op, arg, res, pre, post) ==
    [op |-> op, arg |-> arg, res |-> res, pre |-> Cur(pre), post |-> Cur(post)]

(***************************************************************************)
(* charstream >> std::noskipws >> ch: a failed read sets eofbit and leaves *)
(* ch as it was.                                                           *)
(***************************************************************************)
stream_get(s) ==
    IF s.charstream # <<>>
    THEN [s |-> [s EXCEPT !.ch = Head(s.charstream),
                          !.charstream = Tail(s.charstream)], ok |-> TRUE]
    ELSE [s |-> [s EXCEPT !.eof = TRUE], ok |-> FALSE]

pop_front(s) == [s EXCEPT !.ch = Head(s.charhistory),
                          !.charhistory = Tail(s.charhistory)]

push_front(s, c) == [s EXCEPT !.charhistory = <<c>> \o @]

\* advance that answers for the rewind queue alone.
advance_queue_only(s) ==
    LET popped(t) == [s |-> t, ok |-> (t.charhistory = <<>>)]
        read(r) == [s |-> r.s, ok |-> ~r.ok]
    IN  IF s.charhistory # <<>> THEN popped(pop_front(s))
        ELSE read(stream_get(s))

advance(s) ==
    LET popped(t) == [s |-> t, ok |-> (t.charhistory = <<>> /\ t.eof)]
        read(r) == [s |-> r.s, ok |-> ~r.ok]
    IN  IF s.charhistory # <<>> THEN popped(pop_front(s))
        ELSE read(stream_get(s))

RECURSIVE blanks_stream(_)
blanks_stream(s) ==
    LET read(r) == IF ~r.ok THEN r.s
                   ELSE IF ~isblank(r.s.ch) THEN r.s
                   ELSE blanks_stream(r.s)
    IN  read(stream_get(s))

RECURSIVE blanks_history(_)
blanks_history(s) ==
    LET popped(t) == IF ~isblank(t.ch) THEN t ELSE blanks_history(t)
    IN  IF s.charhistory = <<>> THEN blanks_stream(s)
        ELSE popped(pop_front(s))

consume_blanks(s) == IF ~isblank(s.ch) THEN s ELSE blanks_history(s)

(***************************************************************************)
(* expect_newline: one step of its two loops clears or extends             *)
(* currentindent; nothing clears it for the newline it starts on.          *)
(***************************************************************************)
indent_step(s) ==
    IF isnewline(s.ch)
    THEN [s EXCEPT !.currentindent = <<>>, !.lineprefix = <<>>]
    ELSE [s EXCEPT !.currentindent = Append(@, s.ch),
                   !.lineprefix = Append(@, s.ch)]

RECURSIVE newline_stream(_)
newline_stream(s) ==
    LET read(r) ==
            IF ~r.ok
            THEN IF r.s.eof /\ isnewline(r.s.ch)
                 THEN [r.s EXCEPT !.currentindent = <<>>]
                 ELSE r.s
            ELSE IF isnewline(r.s.ch) \/ isblank(r.s.ch)
            THEN newline_stream(indent_step(r.s))
            ELSE r.s
    IN  read(stream_get(s))

RECURSIVE newline_history(_)
newline_history(s) ==
    LET popped(t) == IF isnewline(t.ch) \/ isblank(t.ch)
                     THEN newline_history(indent_step(t))
                     ELSE t
    IN  IF s.charhistory = <<>> THEN newline_stream(s)
        ELSE popped(pop_front(s))

expect_newline(s) ==
    LET taken(t) ==
            [s |-> Ev(t, Call("expect_newline", <<>>, "true", s, t)),
             ok |-> TRUE]
        blanks(b) ==
            IF ~isnewline(b.ch) THEN [s |-> b, ok |-> FALSE]
            ELSE taken(newline_history([b EXCEPT !.lineprefix = <<>>]))
    IN  blanks(consume_blanks(s))

(***************************************************************************)
(* Single-character matchers.                                              *)
(***************************************************************************)
expect_char(s, c) ==
    IF s.ch # c THEN [s |-> s, ok |-> FALSE]
    ELSE [s |-> advance(s).s, ok |-> TRUE]

expect_char_of(s, cs) ==
    IF s.ch \notin cs THEN [s |-> s, ok |-> FALSE, c |-> s.ch]
    ELSE [s |-> advance(s).s, ok |-> TRUE, c |-> s.ch]

expect_char_not_of(s, cs) ==
    IF s.ch \in cs THEN [s |-> s, ok |-> FALSE, c |-> s.ch]
    ELSE [s |-> advance(s).s, ok |-> TRUE, c |-> s.ch]

(***************************************************************************)
(* expect_keyword and expect_op.  historicstack holds the characters taken *)
(* from the rewind queue; the two restore loops put them back.             *)
(***************************************************************************)
restore_top(s, historicstack) ==
    IF historicstack = <<>> THEN s
    ELSE [s EXCEPT !.charhistory = Tail(historicstack) \o @,
                   !.ch = historicstack[1]]

restore_all(s, historicstack) ==
    IF historicstack = <<>> THEN s
    ELSE [s EXCEPT !.charhistory = Tail(historicstack) \o <<s.ch>> \o @,
                   !.ch = historicstack[1]]

pop_back(s, n) ==
    [s EXCEPT !.charhistory = SubSeq(@, 1, Len(@) - n)]

RECURSIVE match_history(_, _, _, _)
match_history(s, word, i, historicstack) ==
    IF i <= Len(word) /\ s.charhistory # <<>>
    THEN IF Head(s.charhistory) # word[i]
         THEN [s |-> restore_top(s, historicstack), i |-> i,
               historicstack |-> historicstack, mismatch |-> TRUE]
         ELSE match_history(pop_front(s), word, i + 1,
                            Append(historicstack, s.ch))
    ELSE [s |-> s, i |-> i, historicstack |-> historicstack,
          mismatch |-> FALSE]

isidentchar(c) == isalnum(c) \/ c = "_"

RECURSIVE keyword_stream(_, _, _, _, _)
keyword_stream(s, kwd, i, historicstack, history_pushbacks) ==
    LET read(r) ==
            IF ~r.ok
            THEN [s |-> r.s, i |-> i, n |-> history_pushbacks,
                  mismatch |-> FALSE]
            ELSE IF r.s.ch # kwd[i]
            THEN [s |-> restore_top(r.s, historicstack), i |-> i,
                  n |-> history_pushbacks, mismatch |-> TRUE]
            ELSE keyword_stream(
                     [r.s EXCEPT !.charhistory = Append(@, r.s.ch)],
                     kwd, i + 1, historicstack, history_pushbacks + 1)
    IN  IF i > Len(kwd)
        THEN [s |-> s, i |-> i, n |-> history_pushbacks, mismatch |-> FALSE]
        ELSE read(stream_get(s))

keyword_boundary(s, historicstack) ==
    LET peeked(r) ==
            [s |-> [r.s EXCEPT !.charhistory = Append(@, r.s.ch),
                               !.ch = s.ch],
             not_keyword |-> isidentchar(r.s.ch)]
        decide(t) ==
            IF t.not_keyword
            THEN [s |-> restore_all(t.s, historicstack), ok |-> FALSE]
            ELSE [s |-> advance(t.s).s, ok |-> TRUE]
    IN  decide(IF s.charhistory = <<>> THEN peeked(stream_get(s))
               ELSE [s |-> s,
                     not_keyword |-> isidentchar(Head(s.charhistory))])

keyword_tail(s, kwd, i, historicstack, history_pushbacks) ==
    LET read(r) == IF isidentchar(r.s.ch) THEN restore_top(r.s, historicstack)
                   ELSE r.s
    IN  [s |-> pop_back(read(stream_get(s)), history_pushbacks),
         ok |-> (i = Len(kwd) + 1)]

expect_keyword_run(s, kwd) ==
    LET from_stream(h, l) ==
            IF l.mismatch THEN [s |-> l.s, ok |-> FALSE]
            ELSE keyword_tail(l.s, kwd, l.i, h.historicstack, l.n)
        from_history(h) ==
            IF h.mismatch THEN [s |-> h.s, ok |-> FALSE]
            ELSE IF h.i = Len(kwd) + 1
            THEN keyword_boundary(h.s, h.historicstack)
            ELSE from_stream(h, keyword_stream(
                     [h.s EXCEPT !.charhistory = Append(@, h.s.ch)],
                     kwd, h.i, h.historicstack, 1))
    IN  IF s.ch # kwd[1] THEN [s |-> s, ok |-> FALSE]
        ELSE from_history(match_history(s, kwd, 2, <<>>))

expect_keyword(s, kwd) ==
    LET answer(r) ==
            IF s.ch # kwd[1] THEN r
            ELSE [s |-> Ev(r.s, Call("expect_keyword", kwd,
                                 IF r.ok THEN "true" ELSE "false", s, r.s)),
                  ok |-> r.ok]
    IN  answer(expect_keyword_run(s, kwd))

(***************************************************************************)
(* In expect_op's stream loop a mismatch reads historicstack.back() even   *)
(* when the vector is empty; s.ub says what that read does in the build.   *)
(***************************************************************************)
back_of(s, historicstack) ==
    IF historicstack # <<>>
    THEN [s |-> restore_top(s, historicstack), err |-> NoErr]
    ELSE IF s.ub = Crashed
    THEN [s |-> s, err |-> Crashed]
    ELSE [s |-> [s EXCEPT !.ch = s.ub], err |-> NoErr]

RECURSIVE op_stream(_, _, _, _, _)
op_stream(s, op, i, historicstack, history_pushbacks) ==
    LET mismatched(b) ==
            [s |-> b.s, i |-> i, n |-> history_pushbacks,
             mismatch |-> TRUE, err |-> b.err]
        read(r) ==
            IF ~r.ok
            THEN [s |-> r.s, i |-> i, n |-> history_pushbacks,
                  mismatch |-> FALSE, err |-> NoErr]
            ELSE IF r.s.ch # op[i]
            THEN mismatched(back_of(r.s, historicstack))
            ELSE op_stream([r.s EXCEPT !.charhistory = Append(@, r.s.ch)],
                           op, i + 1, historicstack, history_pushbacks + 1)
    IN  IF i > Len(op)
        THEN [s |-> s, i |-> i, n |-> history_pushbacks, mismatch |-> FALSE,
              err |-> NoErr]
        ELSE read(stream_get(s))

op_boundary(s, historicstack) ==
    LET peeked(r) ==
            [s |-> [r.s EXCEPT !.charhistory = Append(@, r.s.ch),
                               !.ch = s.ch],
             not_op |-> r.s.ch \in op_chars]
        decide(t) ==
            IF t.not_op
            THEN [s |-> restore_all(t.s, historicstack), ok |-> FALSE,
                  err |-> NoErr]
            ELSE [s |-> advance(t.s).s, ok |-> TRUE, err |-> NoErr]
    IN  decide(IF s.charhistory = <<>> THEN peeked(stream_get(s))
               ELSE [s |-> s, not_op |-> Head(s.charhistory) \in op_chars])

op_tail(s, op, i, historicstack, history_pushbacks) ==
    LET read(r) == IF r.s.ch \in op_chars THEN restore_top(r.s, historicstack)
                   ELSE r.s
    IN  [s |-> pop_back(read(stream_get(s)), history_pushbacks),
         ok |-> (i = Len(op) + 1), err |-> NoErr]

expect_op_run(s, op) ==
    LET from_stream(h, l) ==
            IF l.mismatch THEN [s |-> l.s, ok |-> FALSE, err |-> l.err]
            ELSE op_tail(l.s, op, l.i, h.historicstack, l.n)
        from_history(h) ==
            IF h.mismatch THEN [s |-> h.s, ok |-> FALSE, err |-> NoErr]
            ELSE IF h.i = Len(op) + 1
            THEN op_boundary(h.s, h.historicstack)
            ELSE from_stream(h, op_stream(
                     [h.s EXCEPT !.charhistory = Append(@, h.s.ch)],
                     op, h.i, h.historicstack, 1))
    IN  IF s.ch # op[1] THEN [s |-> s, ok |-> FALSE, err |-> NoErr]
        ELSE from_history(match_history(s, op, 2, <<>>))

expect_op(s, op) ==
    LET answer(r) ==
            IF s.ch # op[1] THEN r
            ELSE [r EXCEPT !.s = Ev(r.s, Call("expect_op", op,
                     IF Threw(r) THEN r.err
                     ELSE IF r.ok THEN "true" ELSE "false",
                     s, r.s))]
    IN  answer(expect_op_run(s, op))

(***************************************************************************)
(* A production's no-match is logged when it changed the remaining input   *)
(* (leading blanks aside), and always for the productions in Watched.      *)
(***************************************************************************)
RECURSIVE strip_blanks(_)
strip_blanks(text) ==
    IF text # <<>> /\ isblank(Head(text)) THEN strip_blanks(Tail(text))
    ELSE text

SameInput(pre, post) == strip_blanks(Rem(pre)) = strip_blanks(Rem(post))

Watched == {"parse_param", "parse_dictEntry", "parse_ident", "parse_op"}

Prod(op, pre, r) ==
    IF r.ok
    THEN IF op \in Watched
         THEN [r EXCEPT !.s = Ev(r.s, Call(op, r.ast.lexeme, "match", pre, r.s))]
         ELSE r
    ELSE IF r.err # NoErr THEN r
    ELSE IF op \in Watched \/ ~SameInput(Cur(pre), Cur(r.s))
    THEN [r EXCEPT !.s = Ev(r.s, Call(op, <<>>, "nomatch", pre, r.s))]
    ELSE r

(***************************************************************************)
(* The fixed-lexeme productions.                                           *)
(***************************************************************************)
\* The node of a fixed lexeme that was found, or no match.
token(r, type, lexeme) ==
    IF r.ok THEN Match(r.s, Leaf(type, lexeme)) ELSE NoMatch(r.s)

keyword_token(s, type, kwd) == token(expect_keyword(s, kwd), type, kwd)

op_token(s, type, op) ==
    LET found(r) == IF Threw(r) THEN Throw(r.s, r.err) ELSE token(r, type, op)
    IN  found(expect_op(s, op))

char_token(s, type, c) == token(expect_char(s, c), type, <<c>>)

parse_fnKeyword(s) ==
    Prod("parse_fnKeyword", s, keyword_token(s, "fnKeyword", <<"f", "n">>))

parse_caseKeyword(s) ==
    Prod("parse_caseKeyword", s, keyword_token(s, "caseKeyword", <<"c", "a", "s", "e">>))

parse_ifKeyword(s) ==
    Prod("parse_ifKeyword", s, keyword_token(s, "ifKeyword", <<"i", "f">>))

parse_elseKeyword(s) ==
    Prod("parse_elseKeyword", s, keyword_token(s, "elseKeyword", <<"e", "l", "s", "e">>))

parse_tryKeyword(s) ==
    Prod("parse_tryKeyword", s, keyword_token(s, "tryKeyword", <<"t", "r", "y">>))

parse_catchKeyword(s) ==
    Prod("parse_catchKeyword", s, keyword_token(s, "catchKeyword", <<"c", "a", "t", "c", "h">>))

parse_whileKeyword(s) ==
    Prod("parse_whileKeyword", s, keyword_token(s, "whileKeyword", <<"w", "h", "i", "l", "e">>))

parse_forKeyword(s) ==
    Prod("parse_forKeyword", s, keyword_token(s, "forKeyword", <<"f", "o", "r">>))

parse_inKeyword(s) ==
    Prod("parse_inKeyword", s, keyword_token(s, "inKeyword", <<"i", "n">>))

parse_varKeyword(s) ==
    Prod("parse_varKeyword", s, keyword_token(s, "varKeyword", <<"v", "a", "r">>))

parse_moduleKeyword(s) ==
    Prod("parse_moduleKeyword", s, keyword_token(s, "moduleKeyword", <<"m", "o", "d", "u", "l", "e">>))

parse_exposingKeyword(s) ==
    Prod("parse_exposingKeyword", s, keyword_token(s, "exposingKeyword", <<"e", "x", "p", "o", "s", "i", "n", "g">>))

parse_hidingKeyword(s) ==
    Prod("parse_hidingKeyword", s, keyword_token(s, "hidingKeyword", <<"h", "i", "d", "i", "n", "g">>))

parse_importKeyword(s) ==
    Prod("parse_importKeyword", s, keyword_token(s, "importKeyword", <<"i", "m", "p", "o", "r", "t">>))

parse_asKeyword(s) ==
    Prod("parse_asKeyword", s, keyword_token(s, "asKeyword", <<"a", "s">>))

parse_returnKeyword(s) ==
    Prod("parse_returnKeyword", s, keyword_token(s, "returnKeyword", <<"r", "e", "t", "u", "r", "n">>))

parse_underscore(s) ==
    Prod("parse_underscore", s, keyword_token(s, "underscore", <<"_">>))

parse_dot(s) ==
    Prod("parse_dot", s, op_token(s, "dot", <<".">>))

parse_colon(s) ==
    Prod("parse_colon", s, op_token(s, "colon", <<":">>))

parse_doubleColon(s) ==
    Prod("parse_doubleColon", s, op_token(s, "doubleColon", <<":", ":">>))

parse_lArrow(s) ==
    Prod("parse_lArrow", s, op_token(s, "lArrow", <<"<", "-">>))

\* parse_rArrow with the lexeme of parse_fatRArrow: a slip that the tree of
\* a function declaration must show.  No production calls it.
parse_rArrow_fat(s) ==
    Prod("parse_rArrow", s, op_token(s, "rArrow", <<"=", ">">>))

parse_rArrow(s) ==
    Prod("parse_rArrow", s, op_token(s, "rArrow", <<"-", ">">>))

parse_fatRArrow(s) ==
    Prod("parse_fatRArrow", s, op_token(s, "fatRArrow", <<"=", ">">>))

parse_equals(s) ==
    Prod("parse_equals", s, char_token(s, "equals", "="))

parse_singleQuote(s) ==
    Prod("parse_singleQuote", s, char_token(s, "singleQuote", "'"))

parse_doubleQuote(s) ==
    Prod("parse_doubleQuote", s, char_token(s, "doubleQuote", "\""))

parse_comma(s) ==
    Prod("parse_comma", s, char_token(s, "comma", ","))

parse_lParen(s) ==
    Prod("parse_lParen", s, char_token(s, "lParen", "("))

parse_rParen(s) ==
    Prod("parse_rParen", s, char_token(s, "rParen", ")"))

parse_lSqBracket(s) ==
    Prod("parse_lSqBracket", s, char_token(s, "lSqBracket", "["))

parse_rSqBracket(s) ==
    Prod("parse_rSqBracket", s, char_token(s, "rSqBracket", "]"))

parse_lCurlyBracket(s) ==
    Prod("parse_lCurlyBracket", s, char_token(s, "lCurlyBracket", "{"))

parse_rCurlyBracket(s) ==
    Prod("parse_rCurlyBracket", s, char_token(s, "rCurlyBracket", "}"))

parse_backslash(s) ==
    Prod("parse_backslash", s, char_token(s, "backslash", "\\"))

parse_bar(s) ==
    Prod("parse_bar", s, char_token(s, "bar", "|"))

parse_backtick(s) ==
    Prod("parse_backtick", s, char_token(s, "backtick", Backtick))

consume_lineCommentOp(s) == expect_op(s, <<"-", "-">>)

(***************************************************************************)
(* Helpers for the productions.                                            *)
(***************************************************************************)
Mk(type, children) == [type |-> type, lexeme |-> <<>>, children |-> children]

\* An absent item that the code answers with a throw.
Req(r, msg) ==
    IF r.ok THEN r ELSE IF r.err # NoErr THEN r ELSE Throw(r.s, msg)

\* One more pass of a loop: the same cursor at the loop head twice means
\* the loop never ends.
Again(s, seen) ==
    IF Cur(s) \in seen THEN Diverged
    ELSE IF s.fuel = 0 THEN FuelOut
    ELSE NoErr

Tick(s) == [s EXCEPT !.fuel = @ - 1]

\* An ordered choice: the productions alts[lo], ..., alts[hi] are tried in
\* turn, each on what the one before it left; the first match or throw is
\* the answer.  The range is halved so that the evaluation stays shallow.
RECURSIVE run(_, _)
RECURSIVE choice(_, _, _, _)
choice(alts, lo, hi, s) ==
    IF lo = hi THEN run(alts[lo], s)
    ELSE LET r == choice(alts, lo, (lo + hi) \div 2, s)
         IN  IF r.ok THEN r
             ELSE IF r.err # NoErr THEN r
             ELSE choice(alts, (lo + hi) \div 2 + 1, hi, r.s)

first_of(alts, s) == choice(alts, 1, Len(alts), s)

RECURSIVE parse_expr(_)
RECURSIVE parse_subexpr(_)
RECURSIVE parse_pattern(_)
RECURSIVE parse_typeIdent(_)
RECURSIVE parse_line(_, _)
RECURSIVE parse_ifElse(_)
RECURSIVE get_block(_, _, _)
RECURSIVE parse_param(_)
RECURSIVE parse_dictEntry(_)
RECURSIVE comma_loop(_, _, _)

(***************************************************************************)
(* Identifiers.                                                            *)
(***************************************************************************)
RECURSIVE ident_loop(_, _)
ident_loop(s, id) ==
    IF isidentchar(s.ch)
    THEN LET a == advance(s)
         IN  IF a.ok THEN Match(a.s, Leaf("ident", Append(id, s.ch)))
             ELSE ident_loop(a.s, Append(id, s.ch))
    ELSE Match(s, Leaf("ident", id))

parse_ident(s0) ==
    Prod("parse_ident", s0,
         LET s == consume_blanks(s0)
         IN  IF ~isalpha(s.ch) /\ s.ch # "_" THEN NoMatch(s)
             ELSE IF s.ch = "_"
             THEN LET a == advance(s).s
                  IN  IF a.ch # "_" /\ ~isalnum(a.ch)
                      THEN NoMatch([push_front(a, a.ch) EXCEPT !.ch = "_"])
                      ELSE ident_loop(a, <<"_">>)
             ELSE ident_loop(s, <<>>))

\* parse_memberIdent's and parse_scopedIdent's push-back of the first name.
unread_ident(s, lex) ==
    [s EXCEPT !.charhistory = Tail(lex) \o <<s.ch>> \o @, !.ch = lex[1]]

parse_memberIdent(s0) ==
    Prod("parse_memberIdent", s0,
         LET first == run("parse_ident", s0)
         IN  IF ~first.ok THEN first
             ELSE LET dot == run("parse_dot", first.s)
                  IN  IF Threw(dot) THEN dot
                      ELSE IF ~dot.ok
                      THEN NoMatch(unread_ident(dot.s, first.ast.lexeme))
                      ELSE LET second == Req(run("parse_ident", dot.s),
                                   "expected identifier after dot operator")
                           IN  IF ~second.ok THEN second
                               ELSE Match(second.s, Mk("memberIdent",
                                        <<first.ast, dot.ast, second.ast>>)))

parse_scopedIdent(s0) ==
    Prod("parse_scopedIdent", s0,
         LET first == run("parse_ident", s0)
         IN  IF ~first.ok THEN first
             ELSE LET dc == run("parse_doubleColon", first.s)
                  IN  IF Threw(dc) THEN dc
                      ELSE IF ~dc.ok
                      THEN NoMatch(unread_ident(dc.s, first.ast.lexeme))
                      ELSE LET second == Req(run("parse_ident", dc.s),
                                   "expected identifier after dot operator")
                           IN  IF ~second.ok THEN second
                               ELSE Match(second.s, Mk("scopedIdent",
                                        <<first.ast, dc.ast, second.ast>>)))

Wrap(type, r) ==
    IF r.ok THEN Match(r.s, Mk(type, <<r.ast>>)) ELSE r

parse_qualIdent(s0) ==
    Prod("parse_qualIdent", s0,
         LET s == consume_blanks(s0)
         IN  Wrap("qualIdent",
                  first_of(<<"parse_memberIdent", "parse_scopedIdent",
                             "parse_ident">>, s)))

parse_namespacedIdent(s0) ==
    Prod("parse_namespacedIdent", s0,
         LET s == consume_blanks(s0)
         IN  Wrap("namespacedIdent",
                  first_of(<<"parse_scopedIdent", "parse_ident">>, s)))

(***************************************************************************)
(* while (comma = parse_comma()) { item = ...; if (!item) break; add both; *)
(* consume_blanks(); }  -- the loop shared by the list-like productions.   *)
(***************************************************************************)
comma_loop(s, ast, kind) ==
    LET comma == run("parse_comma", s)
    IN  IF ~comma.ok THEN Match(comma.s, ast)
        ELSE LET item == run(kind, comma.s)
             IN  IF Threw(item) THEN item
                 ELSE IF ~item.ok THEN Match(item.s, ast)
                 ELSE comma_loop(consume_blanks(item.s),
                          add_child(add_child(ast, comma.ast), item.ast), kind)

\* The closing token of a bracketed production, appended to the node.
Close(r, P, msg) ==
    IF r.ok
    THEN LET c == Req(run(P, r.s), msg)
         IN  IF c.ok THEN Match(c.s, add_child(r.ast, c.ast)) ELSE c
    ELSE r

(***************************************************************************)
(* Types.                                                                  *)
(***************************************************************************)
type_tuple(l) ==
    LET first == run("parse_typeIdent", l.s)
        node == Mk("typeIdent", <<l.ast>>)
        s1 == consume_blanks(first.s)
    IN  IF Threw(first) THEN first
        ELSE IF ~first.ok THEN Close(Match(s1, node), "parse_rParen",
                                     "expected right paren to terminate type tuple")
        ELSE LET comma == Req(run("parse_comma", s1),
                              "expected comma after first type tuple element")
             IN  IF ~comma.ok THEN comma
                 ELSE LET second == Req(run("parse_typeIdent", comma.s),
                              "expected 0 or at least 2 elements in type tuple")
                      IN  IF ~second.ok THEN second
                          ELSE Close(comma_loop(consume_blanks(second.s),
                                         Mk("typeIdent", <<l.ast, first.ast,
                                             comma.ast, second.ast>>),
                                         "parse_typeIdent"),
                                     "parse_rParen",
                                     "expected right paren to terminate type tuple")

type_list(l) ==
    LET ident == Req(run("parse_typeIdent", l.s), "expected type identifier after [")
    IN  IF ~ident.ok THEN ident
        ELSE Close(Match(ident.s, Mk("typeIdent", <<l.ast, ident.ast>>)),
                   "parse_rSqBracket", "expected closing ] of list type")

type_dict(l) ==
    LET ident == Req(run("parse_typeIdent", l.s), "expected type identifier after {")
    IN  IF ~ident.ok THEN ident
        ELSE LET comma == run("parse_comma", consume_blanks(ident.s))
                 node == Mk("typeIdent", <<l.ast, ident.ast>>)
             IN  IF ~comma.ok
                 THEN Close(Match(comma.s, node), "parse_rCurlyBracket",
                            "expected closing } of dict/set type")
                 ELSE LET second == Req(run("parse_typeIdent", comma.s),
                                        "expected type identifier after ,")
                      IN  IF ~second.ok THEN second
                          ELSE Close(Match(second.s, add_child(
                                         add_child(node, comma.ast), second.ast)),
                                     "parse_rCurlyBracket",
                                     "expected closing } of dict/set type")

parse_typeIdent(s0) ==
    Prod("parse_typeIdent", s0,
         LET s == consume_blanks(s0)
             n == run("parse_namespacedIdent", s)
         IN  IF Threw(n) THEN n
             ELSE IF n.ok THEN Wrap("typeIdent", n)
             ELSE LET lp == run("parse_lParen", n.s)
                  IN  IF lp.ok THEN type_tuple(lp)
                  ELSE LET lsq == run("parse_lSqBracket", lp.s)
                  IN  IF lsq.ok THEN type_list(lsq)
                  ELSE LET lc == run("parse_lCurlyBracket", lsq.s)
                  IN  IF lc.ok THEN type_dict(lc)
                  ELSE NoMatch(lc.s))

(***************************************************************************)
(* Operators and literals.                                                 *)
(***************************************************************************)
RECURSIVE op_loop(_, _, _)
op_loop(s, op, seen) ==
    LET again(c, a) ==
            IF a # NoErr THEN [s |-> c.s, op |-> op, err |-> a]
            ELSE op_loop(Tick(c.s), Append(op, c.c), seen \cup {Cur(c.s)})
        taken(c) ==
            IF ~c.ok THEN [s |-> c.s, op |-> op, err |-> NoErr]
            ELSE again(c, Again(c.s, seen))
    IN  taken(expect_char_of(s, op_chars))

parse_op(s0) ==
    LET scanned(l) ==
            IF Threw(l) THEN Throw(l.s, l.err)
            ELSE IF l.op = <<>> THEN NoMatch(l.s)
            ELSE IF l.op \in reserved_ops
            THEN Throw(Ev(l.s, Call("parse_op", l.op, "throw", s0, l.s)),
                       "the operator is reserved")
            ELSE Match(l.s, Leaf("op", l.op))
    IN  Prod("parse_op", s0, scanned(op_loop(consume_blanks(s0), <<>>, {})))

RECURSIVE digits(_, _)
digits(s, str) ==
    LET advanced(a) ==
            IF a.ok THEN [s |-> a.s, str |-> Append(str, s.ch)]
            ELSE digits(a.s, Append(str, s.ch))
    IN  IF isdigit(s.ch) THEN advanced(advance(s))
        ELSE [s |-> s, str |-> str]

num_node(type, minus, leaf) ==
    Mk("numLit", << Mk(type, IF minus THEN <<Leaf("minus", <<"-">>), leaf>>
                              ELSE <<leaf>>) >>)

parse_numLit(s0) ==
    LET real(minus, f) ==
            Match(f.s, num_node("realLit", minus, Leaf("absReal", f.str)))
        fraction(minus, d, a) ==
            IF ~isdigit(a.ch)
            THEN Throw(a, "expected at least one digit after decimal point")
            ELSE real(minus, digits(a, Append(d.str, ".")))
        int(minus, d) ==
            IF d.s.ch # "."
            THEN Match(d.s, num_node("intLit", minus, Leaf("absInt", d.str)))
            ELSE fraction(minus, d, advance(d.s).s)
        after_inf(minus, inf) ==
            IF inf.ok
            THEN Match(inf.s, num_node("realLit", minus,
                           Leaf("infinityKeyword",
                                <<"I","n","f","i","n","i","t","y">>)))
            ELSE IF ~isdigit(inf.s.ch)
            THEN NoMatch(IF minus
                         THEN push_front(push_front(inf.s, " "), "-")
                         ELSE inf.s)
            ELSE int(minus, digits(inf.s, <<>>))
        after_nan(minus, nan) ==
            IF nan.ok
            THEN Match(nan.s, num_node("realLit", minus,
                           Leaf("nanKeyword", <<"N", "a", "N">>)))
            ELSE after_inf(minus, expect_keyword(nan.s,
                               <<"I","n","f","i","n","i","t","y">>))
        after_minus(m) ==
            after_nan(m.ok, expect_keyword(IF m.ok THEN consume_blanks(m.s)
                                           ELSE m.s,
                                           <<"N", "a", "N">>))
    IN  Prod("parse_numLit", s0,
             after_minus(expect_op(consume_blanks(s0), <<"-">>)))

\* parse_chrChr (quote = ', type = chrChr) and parse_strChr (", strChr).
body_char(s, type, quote) ==
    LET c == expect_char_not_of(s, {quote, "\\"})
    IN  IF c.ok THEN Match(c.s, Leaf(type, <<c.c>>))
        ELSE LET b == expect_char(s, "\\")
             IN  IF ~b.ok THEN NoMatch(b.s)
                 ELSE LET e == expect_char_of(b.s, esc_chars)
                      IN  IF e.ok THEN Match(e.s, Leaf(type, <<"\\", e.c>>))
                          ELSE NoMatch(e.s)

parse_chrChr(s) == Prod("parse_chrChr", s, body_char(s, "chrChr", "'"))

parse_strChr(s) == Prod("parse_strChr", s, body_char(s, "strChr", "\""))

parse_chrLit(s0) ==
    Prod("parse_chrLit", s0,
         LET init == run("parse_singleQuote", consume_blanks(s0))
         IN  IF ~init.ok THEN init
             ELSE LET c == Req(run("parse_chrChr", init.s), "unexpected ' or EOF")
                  IN  IF ~c.ok THEN c
                      ELSE Close(Match(c.s, Mk("chrLit", <<init.ast, c.ast>>)),
                                 "parse_singleQuote", "expected ', got: "))

RECURSIVE str_loop(_, _, _)
str_loop(s, strLit, seen) ==
    IF s.ch = "\"" THEN Match(s, strLit)
    ELSE IF Again(s, seen) # NoErr THEN Throw(s, Again(s, seen))
    ELSE LET c == Req(run("parse_strChr", Tick(s)),
                      "invalid escape sequence or unexpected EOF")
         IN  IF ~c.ok THEN c
             ELSE str_loop(c.s, add_child(strLit, c.ast), seen \cup {Cur(s)})

parse_strLit(s0) ==
    Prod("parse_strLit", s0,
         LET init == run("parse_doubleQuote", consume_blanks(s0))
         IN  IF ~init.ok THEN init
             ELSE Close(str_loop(init.s, Mk("strLit", <<init.ast>>), {}),
                        "parse_doubleQuote", "expected quote, got: "))

parse_infixed(s0) ==
    Prod("parse_infixed", s0,
         LET first == run("parse_backtick", consume_blanks(s0))
         IN  IF ~first.ok THEN first
             ELSE LET ident == Req(run("parse_qualIdent", first.s),
                                   "expected identifier after grave")
                  IN  IF ~ident.ok THEN ident
                      ELSE Close(Match(ident.s,
                                       Mk("infixed", <<first.ast, ident.ast>>)),
                                 "parse_backtick", "expected closing grave"))

(***************************************************************************)
(* The text that is pushed back for a consumed subtree.                    *)
(***************************************************************************)
RECURSIVE str_repr(_)
RECURSIVE str_repr_children(_, _)
str_repr_children(children, i) ==
    IF i > Len(children) THEN <<>>
    ELSE str_repr(children[i])
         \o (IF children[i].type \in {"strChr", "chrChr",
                                      "doubleQuote", "singleQuote"}
             THEN <<>> ELSE <<" ">>)
         \o str_repr_children(children, i + 1)

str_repr(ast) ==
    IF ast.lexeme # <<>> THEN ast.lexeme
    ELSE str_repr_children(ast.children, 1)

\* The push-back of parse_assign and parse_generator.
unread_pattern(s, pattern) ==
    LET consumed_pattern == str_repr(pattern)
    IN  [s EXCEPT !.charhistory = Tail(consumed_pattern) \o <<" ", s.ch>> \o @,
                  !.ch = consumed_pattern[1]]

(***************************************************************************)
(* Patterns.                                                               *)
(***************************************************************************)
pattern_tuple(l) ==
    LET first == run("parse_pattern", l.s)
        msg == "left paren in pattern requires )"
    IN  IF Threw(first) THEN first
        ELSE IF ~first.ok
        THEN Close(Match(first.s, Mk("pattern", <<l.ast>>)), "parse_rParen", msg)
        ELSE LET comma == Req(run("parse_comma", first.s),
                     "expected comma after first element of pattern tuple")
             IN  IF ~comma.ok THEN comma
                 ELSE LET second == Req(run("parse_pattern", comma.s),
                              "expected 0 or at least 2 elements in pattern tuple")
                      IN  IF ~second.ok THEN second
                          ELSE Close(comma_loop(consume_blanks(second.s),
                                         Mk("pattern", <<l.ast, first.ast,
                                             comma.ast, second.ast>>),
                                         "parse_pattern"),
                                     "parse_rParen", msg)

pattern_list(l) ==
    LET first == run("parse_pattern", l.s)
        msg == "left square bracket in pattern requires ]"
    IN  IF Threw(first) THEN first
        ELSE IF ~first.ok
        THEN Close(Match(first.s, Mk("pattern", <<l.ast>>)),
                   "parse_rSqBracket", msg)
        ELSE Close(comma_loop(consume_blanks(first.s),
                              Mk("pattern", <<l.ast, first.ast>>), "parse_pattern"),
                   "parse_rSqBracket", msg)

RECURSIVE dict_pattern_loop(_, _)
dict_pattern_loop(s, ast) ==
    LET comma == run("parse_comma", s)
    IN  IF ~comma.ok THEN Match(comma.s, ast)
        ELSE LET key == run("parse_pattern", comma.s)
             IN  IF Threw(key) THEN key
                 ELSE IF ~key.ok THEN Match(key.s, ast)
                 ELSE LET equals == Req(run("parse_equals", consume_blanks(key.s)),
                                        "expected = after key of dict pattern")
                      IN  IF ~equals.ok THEN equals
                          ELSE LET val == Req(run("parse_pattern", equals.s),
                                 "expected value pattern after = of dict pattern")
                               IN  IF ~val.ok THEN val
                                   ELSE dict_pattern_loop(consume_blanks(val.s),
                                            [ast EXCEPT !.children = @ \o
                                                <<comma.ast, key.ast,
                                                  equals.ast, val.ast>>])

pattern_dict(l) ==
    LET first_key == run("parse_pattern", l.s)
        msg == "left curly bracket in pattern requires }"
    IN  IF Threw(first_key) THEN first_key
        ELSE IF ~first_key.ok
        THEN Close(Match(first_key.s, Mk("pattern", <<l.ast>>)),
                   "parse_rCurlyBracket", msg)
        ELSE LET first_equals == run("parse_equals", consume_blanks(first_key.s))
             IN  IF ~first_equals.ok
                 THEN Close(comma_loop(consume_blanks(first_equals.s),
                                Mk("pattern", <<l.ast, first_key.ast>>),
                                "parse_pattern"),
                            "parse_rCurlyBracket", msg)
                 ELSE LET first_val == Req(run("parse_pattern", first_equals.s),
                        "expected value pattern after first = of dict pattern")
                      IN  IF ~first_val.ok THEN first_val
                          ELSE Close(dict_pattern_loop(
                                         consume_blanks(first_val.s),
                                         Mk("pattern", <<l.ast, first_key.ast,
                                             first_equals.ast, first_val.ast>>)),
                                     "parse_rCurlyBracket", msg)

parse_pattern(s0) ==
    Prod("parse_pattern", s0,
         LET s == consume_blanks(s0)
             a == first_of(<<"parse_ident", "parse_chrLit", "parse_strLit",
                             "parse_numLit", "parse_underscore">>, s)
         IN  IF Threw(a) THEN a
             ELSE IF a.ok THEN Wrap("pattern", a)
             ELSE LET lp == run("parse_lParen", a.s)
                  IN  IF lp.ok THEN pattern_tuple(lp)
                  ELSE LET lsq == run("parse_lSqBracket", lp.s)
                  IN  IF lsq.ok THEN pattern_list(lsq)
                  ELSE LET lc == run("parse_lCurlyBracket", lsq.s)
                  IN  IF lc.ok THEN pattern_dict(lc)
                  ELSE NoMatch(lc.s))

parse_param(s0) ==
    Prod("parse_param", s0,
         LET s == consume_blanks(s0)
         IN  IF s.ch = "("
             THEN LET l_paren == run("parse_lParen", s)
                      pattern == run("parse_pattern", l_paren.s)
                  IN  IF ~pattern.ok THEN pattern
                      ELSE LET colon == run("parse_colon", consume_blanks(pattern.s))
                           IN  IF ~colon.ok THEN colon
                               ELSE LET t == Req(run("parse_typeIdent", colon.s),
                                                 "expected type")
                                    IN  IF ~t.ok THEN t
                                        ELSE Close(Match(t.s, Mk("param",
                                                 <<l_paren.ast, pattern.ast,
                                                   colon.ast, t.ast>>)),
                                               "parse_rParen",
                                               "expected ) after type")
             ELSE Wrap("param", run("parse_pattern", s)))

parse_generator(s0) ==
    Prod("parse_generator", s0,
         LET pattern == run("parse_pattern", s0)
         IN  IF ~pattern.ok THEN pattern
             ELSE LET l_arrow == run("parse_lArrow", pattern.s)
                  IN  IF Threw(l_arrow) THEN l_arrow
                      ELSE IF ~l_arrow.ok
                      THEN NoMatch(unread_pattern(l_arrow.s, pattern.ast))
                      ELSE LET expr == Req(run("parse_expr", l_arrow.s),
                                           "expected expression after <-")
                           IN  IF ~expr.ok THEN expr
                               ELSE Match(expr.s, Mk("generator",
                                        <<pattern.ast, l_arrow.ast, expr.ast>>)))

parse_dictEntry(s0) ==
    Prod("parse_dictEntry", s0,
         LET key == run("parse_expr", consume_blanks(s0))
         IN  IF ~key.ok THEN key
             ELSE LET equals == run("parse_equals", consume_blanks(key.s))
                  IN  IF ~equals.ok THEN equals
                      ELSE LET val == Req(run("parse_expr", equals.s),
                               "expected expression to be assigned to dict key")
                           IN  IF ~val.ok THEN val
                               ELSE Match(val.s, Mk("dictEntry",
                                        <<key.ast, equals.ast, val.ast>>)))

(***************************************************************************)
(* Lines, comments and blocks.                                             *)
(***************************************************************************)
RECURSIVE comment_stream(_)
comment_stream(s) ==
    LET read(r) ==
            IF ~r.ok \/ isnewline(r.s.ch) THEN r.s ELSE comment_stream(r.s)
    IN  read(stream_get(s))

RECURSIVE comment_history(_)
comment_history(s) ==
    LET popped(t) == IF isnewline(t.ch) THEN t ELSE comment_history(t)
    IN  IF s.charhistory = <<>> THEN comment_stream(s)
        ELSE popped(pop_front(s))

\* The result is the state; err is set when the operator scan faults.
consume_lineComment(s0, consume_newline) ==
    LET skipped(t) ==
            IF isnewline(t.ch) /\ consume_newline
            THEN [s |-> run("expect_newline", t).s, err |-> NoErr]
            ELSE [s |-> t, err |-> NoErr]
        comment(o) ==
            IF o.err # NoErr \/ ~o.ok THEN [s |-> o.s, err |-> o.err]
            ELSE skipped(IF isnewline(o.s.ch) THEN o.s
                         ELSE comment_history(o.s))
    IN  comment(run("consume_lineCommentOp", consume_blanks(s0)))

parse_line(s0, consume_newline) ==
    LET ended(line, c) ==
            IF c.err # NoErr THEN Throw(c.s, c.err)
            ELSE IF consume_newline THEN Match(run("expect_newline", c.s).s, line)
            ELSE Match(c.s, line)
        body(expr) ==
            IF Threw(expr) THEN expr
            ELSE ended(IF expr.ok THEN Mk("line", <<expr.ast>>)
                       ELSE Mk("line", <<>>),
                       consume_lineComment(expr.s, consume_newline))
    IN  body(run("parse_expr", consume_blanks(s0)))

parse_caseBranch(s0) ==
    LET branch(pattern, arrow, line) ==
            IF ~line.ok THEN line
            ELSE Match(line.s, Mk("caseBranch",
                     <<pattern.ast, arrow.ast, line.ast>>))
        after_arrow(pattern, arrow) ==
            IF ~arrow.ok THEN arrow
            ELSE branch(pattern, arrow, run("parse_line(false)", arrow.s))
        after_pattern(pattern) ==
            IF ~pattern.ok THEN pattern
            ELSE after_arrow(pattern, Req(run("parse_fatRArrow", pattern.s),
                                 "expected => while parsing case branch"))
    IN  Prod("parse_caseBranch", s0,
             after_pattern(run("parse_pattern", consume_blanks(s0))))

\* isprefixof without the comparison of the characters.
isprefixof_lengths(a, b) ==
    IF Len(a) <= Len(b) THEN TRUE ELSE FALSE

isprefixof(a, b) ==
    IF Len(a) <= Len(b) THEN SubSeq(b, 1, Len(a)) = a ELSE FALSE

\* One item of a block; the record of it keeps the blank prefix of the
\* source line it starts on, next to the indentation of the block.
block_item(s, kind, block_indent) ==
    LET item(r) ==
            IF ~r.ok THEN r
            ELSE [r EXCEPT !.s = Ev(r.s, Call("block_item",
                                              <<block_indent, s.lineprefix>>,
                                              "item", s, r.s))]
    IN  item(IF kind = "line" THEN run("parse_line(false)", s)
             ELSE run("parse_caseBranch", s))

RECURSIVE block_loop(_, _, _, _, _)
block_loop(s, ast, kind, block_indent, seen) ==
    LET after_item(item, n) ==
            IF ~n.ok THEN Throw(n.s, "expected newline after block item")
            ELSE block_loop(n.s, add_child(ast, item.ast), kind,
                            block_indent, seen \cup {Cur(s)})
        pass(item) ==
            IF ~item.ok THEN item
            ELSE after_item(item, run("expect_newline", item.s))
        again(a) ==
            IF a # NoErr THEN Throw(s, a)
            ELSE pass(Req(block_item(Tick(s), kind, block_indent),
                          "expected item in block"))
    IN  IF s.currentindent # block_indent THEN Match(s, ast)
        ELSE again(Again(s, seen))

\* The result carries main_ast with the items added; the caller keeps the
\* returned start_indent, which is currentindent on entry.  A block that is
\* accepted is recorded with the number of its items, and every call with
\* the cursor before and after the newline of its header.
get_block(s0, main_ast, kind) ==
    LET start_indent == s0.currentindent
        accepted(block) ==
            IF ~block.ok THEN block
            ELSE [block EXCEPT !.s = Ev(block.s, Call("get_block",
                      <<Len(block.ast.children) - Len(main_ast.children)>>,
                      "block", s0, block.s))]
        after_first(block_indent, first_item, n) ==
            IF ~n.ok
            THEN Throw(n.s, "expected newline after first item of block")
            ELSE accepted(block_loop(n.s,
                              add_child(main_ast, first_item.ast),
                              kind, block_indent, {}))
        first(block_indent, first_item) ==
            IF ~first_item.ok THEN first_item
            ELSE after_first(block_indent, first_item,
                             run("expect_newline", first_item.s))
        indented(h, block_indent) ==
            IF ~h.ok THEN Throw(h.s, "expected newline after header")
            ELSE IF Len(start_indent) >= Len(block_indent)
                    \/ ~isprefixof(start_indent, block_indent)
            THEN Throw(h.s, "improper indentation after header")
            ELSE first(block_indent,
                       Req(block_item(h.s, kind, block_indent),
                           "expected at least one item in block"))
        header(h) ==
            indented([h EXCEPT !.s = Ev(h.s, Call("header", <<>>,
                          IF h.ok THEN "newline" ELSE "no newline",
                          s0, h.s))],
                     h.s.currentindent)
    IN  header(run("expect_newline", s0))

(***************************************************************************)
(* Statements.                                                             *)
(***************************************************************************)
parse_var(s0) ==
    Prod("parse_var", s0,
         LET kw == run("parse_varKeyword", s0)
         IN  IF ~kw.ok THEN kw
             ELSE LET pattern == Req(run("parse_pattern", kw.s),
                        "left-hand side of var assignment must be a pattern")
                  IN  IF ~pattern.ok THEN pattern
                  ELSE LET colon == run("parse_colon", consume_blanks(pattern.s))
                           type == Req(run("parse_qualIdent", colon.s),
                              "type of var binding must be a valid identifier")
                           var == Mk("var", <<kw.ast, pattern.ast>>
                                     \o (IF colon.ok THEN <<colon.ast, type.ast>>
                                         ELSE <<>>))
                           equals == Req(run("parse_equals", IF colon.ok THEN type.s
                                                      ELSE colon.s),
                                         "var assignment must use =")
                       IN  IF Threw(colon) THEN colon
                           ELSE IF colon.ok /\ ~type.ok THEN type
                           ELSE IF ~equals.ok THEN equals
                           ELSE LET expr == Req(run("parse_expr", equals.s),
  "right-hand side of var assignment must be a valid expression")
                                IN  IF ~expr.ok THEN expr
                                    ELSE Match(expr.s, [var EXCEPT !.children =
                                             @ \o <<equals.ast, expr.ast>>]))

parse_assign(s0) ==
    Prod("parse_assign", s0,
         LET pattern == run("parse_pattern", s0)
         IN  IF ~pattern.ok THEN pattern
             ELSE LET colon == run("parse_colon", consume_blanks(pattern.s))
                      type == Req(run("parse_typeIdent", colon.s),
                                  "type of binding must be a valid identifier")
                      assign == Mk("assign", <<pattern.ast>>
                                   \o (IF colon.ok THEN <<colon.ast, type.ast>>
                                       ELSE <<>>))
                      equals == run("parse_equals", consume_blanks(
                                    IF colon.ok THEN type.s ELSE colon.s))
                      unread(t) ==
                          NoMatch(Ev(t, Call("parse_assign",
                                             str_repr(pattern.ast),
                                             "unread", s0, t)))
                  IN  IF Threw(colon) THEN colon
                      ELSE IF colon.ok /\ ~type.ok THEN type
                      ELSE IF ~equals.ok
                      THEN unread(unread_pattern(equals.s, pattern.ast))
                      ELSE LET expr == Req(run("parse_expr", equals.s),
  "right-hand side of assignment must be a valid expression")
                           IN  IF ~expr.ok THEN expr
                               ELSE Match(expr.s, [assign EXCEPT !.children =
                                        @ \o <<equals.ast, expr.ast>>]))

RECURSIVE param_loop(_, _, _)
param_loop(s, ast, seen) ==
    IF Again(s, seen) # NoErr THEN Throw(s, Again(s, seen))
    ELSE LET fn_param == run("parse_param", Tick(s))
         IN  IF Threw(fn_param) THEN fn_param
             ELSE IF ~fn_param.ok THEN Match(fn_param.s, ast)
             ELSE param_loop(fn_param.s, add_child(ast, fn_param.ast),
                             seen \cup {Cur(s)})

\* The block of r, a header that matched with its node.
block(r, kind) == IF ~r.ok THEN r ELSE get_block(r.s, r.ast, kind)

parse_fnDecl(s0) ==
    LET typed(params, r_arrow, ret_type) ==
            IF ~ret_type.ok THEN ret_type
            ELSE Match(ret_type.s,
                       add_child(add_child(params.ast, r_arrow.ast),
                                 ret_type.ast))
        after_params(params, r_arrow) ==
            IF Threw(r_arrow) THEN r_arrow
            ELSE IF ~r_arrow.ok THEN Match(r_arrow.s, params.ast)
            ELSE typed(params, r_arrow,
                       Req(run("parse_qualIdent", r_arrow.s),
                           "expected type after arrow"))
        after_name(params) ==
            IF Threw(params) THEN params
            ELSE after_params(params,
                              run("parse_rArrow", consume_blanks(params.s)))
        after_keyword(kw, fn_name) ==
            IF ~fn_name.ok THEN fn_name
            ELSE after_name(param_loop(consume_blanks(fn_name.s),
                                Mk("fnDecl", <<kw.ast, fn_name.ast>>), {}))
        keyword(kw) ==
            IF ~kw.ok THEN kw
            ELSE after_keyword(kw, Req(run("parse_ident", consume_blanks(kw.s)),
                                       "expected function name"))
    IN  Prod("parse_fnDecl", s0,
             block(keyword(run("parse_fnKeyword", consume_blanks(s0))),
                   "line"))

parse_parened(s0) ==
    Prod("parse_parened", s0,
         LET l_paren == run("parse_lParen", consume_blanks(s0))
         IN  IF ~l_paren.ok THEN l_paren
             ELSE LET expr == Req(run("parse_expr", l_paren.s),
                                  "expected expression within parens")
                  IN  IF ~expr.ok THEN expr
                      ELSE Close(Match(expr.s,
                                       Mk("parened", <<l_paren.ast, expr.ast>>)),
                                 "parse_rParen", "expected closing paren"))

parse_return(s0) ==
    Prod("parse_return", s0,
         LET kw == run("parse_returnKeyword", consume_blanks(s0))
         IN  IF ~kw.ok THEN kw
             ELSE LET expr == Req(run("parse_expr", kw.s),
                                  "expected expression to return")
                  IN  IF ~expr.ok THEN expr
                      ELSE Match(expr.s, Mk("return_", <<kw.ast, expr.ast>>)))

\* keyword, blanks, a required expression: the header of case, if, while.
header(kw, type, msg) ==
    LET subject(expr) ==
            IF ~expr.ok THEN expr
            ELSE Match(expr.s, Mk(type, <<kw.ast, expr.ast>>))
    IN  IF ~kw.ok THEN kw
        ELSE subject(Req(run("parse_expr", consume_blanks(kw.s)), msg))

parse_case(s0) ==
    Prod("parse_case", s0,
         block(header(run("parse_caseKeyword", consume_blanks(s0)), "case_",
                      "expected subject expression for case"),
               "caseBranch"))

parse_ifElse(s0) ==
    LET else_part(ifElse, if_else) ==
            IF Threw(if_else) THEN if_else
            ELSE IF if_else.ok
            THEN Match(if_else.s, add_child(ifElse, if_else.ast))
            ELSE get_block(if_else.s, ifElse, "line")
        after_block(b, else_keyword) ==
            IF ~else_keyword.ok THEN Match(else_keyword.s, b.ast)
            ELSE else_part(add_child(b.ast, else_keyword.ast),
                           run("parse_ifElse", else_keyword.s))
        if_part(start_indent, b) ==
            IF Threw(b) \/ b.s.currentindent # start_indent THEN b
            ELSE after_block(b, run("parse_elseKeyword", b.s))
        after_header(h) ==
            IF ~h.ok THEN h
            ELSE if_part(h.s.currentindent, get_block(h.s, h.ast, "line"))
    IN  Prod("parse_ifElse", s0,
             after_header(header(run("parse_ifKeyword", consume_blanks(s0)),
                                 "ifElse",
                                 "expected expression as if condition")))

parse_try(s0) ==
    LET named(b, catch_keyword, exception_ident) ==
            IF ~exception_ident.ok THEN exception_ident
            ELSE get_block(exception_ident.s,
                           [b.ast EXCEPT !.children = @ \o
                               <<catch_keyword.ast, exception_ident.ast>>],
                           "line")
        caught(b, catch_keyword) ==
            IF ~catch_keyword.ok THEN catch_keyword
            ELSE named(b, catch_keyword,
                       Req(run("parse_ident", catch_keyword.s),
                           "catch must name the caught exception"))
        try_part(start_indent, b) ==
            IF Threw(b) THEN b
            ELSE IF b.s.currentindent # start_indent
            THEN Throw(b.s,
                     "try must have corresponsing catch on same indent level")
            ELSE caught(b, Req(run("parse_catchKeyword", b.s),
                               "try must have corresponding catch"))
        after_keyword(kw, s) ==
            try_part(s.currentindent,
                     get_block(s, Mk("try_", <<kw.ast>>), "line"))
        keyword(kw) ==
            IF ~kw.ok THEN kw ELSE after_keyword(kw, consume_blanks(kw.s))
    IN  Prod("parse_try", s0,
             keyword(run("parse_tryKeyword", consume_blanks(s0))))

parse_while(s0) ==
    Prod("parse_while", s0,
         block(header(run("parse_whileKeyword", consume_blanks(s0)), "while_",
                      "expected expression as while condition"),
               "line"))

parse_for(s0) ==
    LET over(kw, for_pattern, in_keyword, iterated) ==
            IF ~iterated.ok THEN iterated
            ELSE Match(iterated.s,
                       Mk("for_", <<kw.ast, for_pattern.ast,
                                    in_keyword.ast, iterated.ast>>))
        after_pattern(kw, for_pattern, in_keyword) ==
            IF ~in_keyword.ok THEN in_keyword
            ELSE over(kw, for_pattern, in_keyword,
                      Req(run("parse_expr", in_keyword.s),
                          "for must iterate over an expression"))
        after_keyword(kw, for_pattern) ==
            IF ~for_pattern.ok THEN for_pattern
            ELSE after_pattern(kw, for_pattern,
                     Req(run("parse_inKeyword", consume_blanks(for_pattern.s)),
                         "missing in keyword of for loop"))
        keyword(kw) ==
            IF ~kw.ok THEN kw
            ELSE after_keyword(kw,
                     Req(run("parse_pattern", consume_blanks(kw.s)),
                         "expected pattern as first part of for header"))
    IN  Prod("parse_for", s0,
             block(keyword(run("parse_forKeyword", consume_blanks(s0))),
                   "line"))

parse_lambda(s0) ==
    Prod("parse_lambda", s0,
         LET backslash == run("parse_backslash", consume_blanks(s0))
         IN  IF ~backslash.ok THEN backslash
             ELSE LET first_param == Req(run("parse_param", backslash.s),
                                         "lambda expression requires 1+ args")
             IN  IF ~first_param.ok THEN first_param
             ELSE LET params == comma_loop(consume_blanks(first_param.s),
                                    Mk("lambda", <<backslash.ast, first_param.ast>>),
                                    "parse_param")
             IN  IF Threw(params) THEN params
             ELSE LET arrow == Req(run("parse_rArrow", params.s),
                                   "lambda expression requires ->")
             IN  IF ~arrow.ok THEN arrow
             ELSE LET expr == Req(run("parse_expr", arrow.s),
                                  "lambda body must be expression")
             IN  IF ~expr.ok THEN expr
             ELSE Match(expr.s, [params.ast EXCEPT !.children = @ \o
                                    <<arrow.ast, expr.ast>>]))

(***************************************************************************)
(* Collection literals.                                                    *)
(***************************************************************************)
parse_tupleLit(s0) ==
    Prod("parse_tupleLit", s0,
         LET l_paren == run("parse_lParen", consume_blanks(s0))
             msg == "expected right paren to terminate tuple"
         IN  IF ~l_paren.ok THEN l_paren
             ELSE LET first_expr == run("parse_expr", l_paren.s)
                      s1 == consume_blanks(first_expr.s)
             IN  IF Threw(first_expr) THEN first_expr
             ELSE IF ~first_expr.ok
             THEN Close(Match(s1, Mk("tupleLit", <<l_paren.ast>>)),
                        "parse_rParen", msg)
             ELSE LET first_comma == Req(run("parse_comma", s1),
                                      "expected comma after first tuple element")
             IN  IF ~first_comma.ok THEN first_comma
             ELSE LET second_expr == Req(run("parse_expr", first_comma.s),
                                      "expected 0 or at least 2 elements in tuple")
             IN  IF ~second_expr.ok THEN second_expr
             ELSE Close(comma_loop(consume_blanks(second_expr.s),
                                   Mk("tupleLit", <<l_paren.ast, first_expr.ast,
                                       first_comma.ast, second_expr.ast>>),
                                   "parse_expr"),
                        "parse_rParen", msg))

parse_listLit(s0) ==
    Prod("parse_listLit", s0,
         LET l == run("parse_lSqBracket", consume_blanks(s0))
             msg == "left square bracket in list literal requires ]"
         IN  IF ~l.ok THEN l
             ELSE LET first_expr == run("parse_expr", l.s)
             IN  IF Threw(first_expr) THEN first_expr
             ELSE IF ~first_expr.ok
             THEN Close(Match(first_expr.s, Mk("listLit", <<l.ast>>)),
                        "parse_rSqBracket", msg)
             ELSE Close(comma_loop(consume_blanks(first_expr.s),
                                   Mk("listLit", <<l.ast, first_expr.ast>>),
                                   "parse_expr"),
                        "parse_rSqBracket", msg))

\* The first element is parsed and dropped; the later ones are kept.
parse_dictLit(s0) ==
    Prod("parse_dictLit", s0,
         LET l == run("parse_lCurlyBracket", consume_blanks(s0))
             msg == "left curly bracket in dict literal requires }"
         IN  IF ~l.ok THEN l
             ELSE LET first_entry == run("parse_dictEntry", l.s)
             IN  IF Threw(first_entry) THEN first_entry
             ELSE IF ~first_entry.ok
             THEN Close(Match(first_entry.s, Mk("dictLit", <<l.ast>>)),
                        "parse_rCurlyBracket", msg)
             ELSE Close(comma_loop(consume_blanks(first_entry.s),
                                   Mk("dictLit", <<l.ast>>), "parse_dictEntry"),
                        "parse_rCurlyBracket", msg))

parse_setLit(s0) ==
    Prod("parse_setLit", s0,
         LET l == run("parse_lCurlyBracket", consume_blanks(s0))
             msg == "left curly bracket in set literal requires }"
         IN  IF ~l.ok THEN l
             ELSE LET first_expr == run("parse_expr", l.s)
             IN  IF Threw(first_expr) THEN first_expr
             ELSE IF ~first_expr.ok
             THEN Close(Match(first_expr.s, Mk("setLit", <<l.ast>>)),
                        "parse_rCurlyBracket", msg)
             ELSE Close(comma_loop(consume_blanks(first_expr.s),
                                   Mk("setLit", <<l.ast>>), "parse_expr"),
                        "parse_rCurlyBracket", msg))

(***************************************************************************)
(* Comprehensions: after the bar, generators or conditions separated by    *)
(* commas; the commas are not kept.                                        *)
(***************************************************************************)
generator_or_condition(s) ==
    LET generator == run("parse_generator", s)
    IN  IF Threw(generator) \/ generator.ok THEN generator
        ELSE run("parse_expr", generator.s)

RECURSIVE comp_loop(_, _)
comp_loop(s, ast) ==
    LET comma == run("parse_comma", s)
    IN  IF ~comma.ok THEN Match(comma.s, ast)
        ELSE LET item == generator_or_condition(comma.s)
             IN  IF Threw(item) THEN item
                 ELSE IF ~item.ok THEN Match(item.s, ast)
                 ELSE comp_loop(consume_blanks(item.s), add_child(ast, item.ast))

comp_tail(s, ast) ==
    LET first == generator_or_condition(s)
    IN  IF Threw(first) THEN first
        ELSE IF ~first.ok THEN Match(first.s, ast)
        ELSE comp_loop(consume_blanks(first.s), add_child(ast, first.ast))

\* The part shared by the three comprehensions, after the opening bracket.
comprehension(l, lhs, type, lhs_msg, bar_msg) ==
    LET left == Req(lhs, lhs_msg)
    IN  IF ~left.ok THEN left
        ELSE LET bar == Req(run("parse_bar", left.s), bar_msg)
             IN  IF ~bar.ok THEN bar
                 ELSE comp_tail(bar.s, Mk(type, <<l.ast, left.ast, bar.ast>>))

parse_listComp(s0) ==
    Prod("parse_listComp", s0,
         LET l == run("parse_lSqBracket", consume_blanks(s0))
         IN  IF ~l.ok THEN l
             ELSE Close(comprehension(l, run("parse_expr", l.s), "listComp",
                  "expected expression on left-hand side of list comprehension",
                  "expected | for list comprehension"),
                        "parse_rSqBracket",
                        "expected ] to terminate list comprehension"))

parse_dictComp(s0) ==
    Prod("parse_dictComp", s0,
         LET l == run("parse_lCurlyBracket", consume_blanks(s0))
         IN  IF ~l.ok THEN l
             ELSE Close(comprehension(l, run("parse_dictEntry", l.s), "dictComp",
                  "expected entry on left-hand side of dict comprehension",
                  "expected | for dict comprehension"),
                        "parse_rCurlyBracket",
                        "expected } to terminate dict comprehension"))

parse_setComp(s0) ==
    Prod("parse_setComp", s0,
         LET l == run("parse_lCurlyBracket", consume_blanks(s0))
         IN  IF ~l.ok THEN l
             ELSE Close(comprehension(l, run("parse_expr", l.s), "setComp",
                  "expected expression on left-hand side of set comprehension",
                  "expected | for set comprehension"),
                        "parse_rCurlyBracket",
                        "expected } to terminate set comprehension"))

(***************************************************************************)
(* Expressions.                                                            *)
(***************************************************************************)
\* r when r is a match or a throw, else the production P on what r left.
settled(r) == r.ok \/ r.err # NoErr

orelse(r, P) == IF settled(r) THEN r ELSE run(P, r.s)

\* The alternatives are tried in the order of the source; each is tried on
\* what the ones before it left.  A no-match of parse_subexpr is a no-match
\* of every alternative, each of which records its own.
parse_subexpr(s0) ==
    LET a_var == run("parse_var", consume_blanks(s0))
        a_assign == orelse(a_var, "parse_assign")
        a_fnDecl == orelse(a_assign, "parse_fnDecl")
        a_parened == orelse(a_fnDecl, "parse_parened")
        a_return == orelse(a_parened, "parse_return")
        a_case == orelse(a_return, "parse_case")
        a_ifElse == orelse(a_case, "parse_ifElse")
        a_try == orelse(a_ifElse, "parse_try")
        a_while == orelse(a_try, "parse_while")
        a_for == orelse(a_while, "parse_for")
        a_lambda == orelse(a_for, "parse_lambda")
        a_tupleLit == orelse(a_lambda, "parse_tupleLit")
        a_listLit == orelse(a_tupleLit, "parse_listLit")
        a_listComp == orelse(a_listLit, "parse_listComp")
        a_dictLit == orelse(a_listComp, "parse_dictLit")
        a_dictComp == orelse(a_dictLit, "parse_dictComp")
        a_setLit == orelse(a_dictComp, "parse_setLit")
        a_setComp == orelse(a_setLit, "parse_setComp")
        a_qualIdent == orelse(a_setComp, "parse_qualIdent")
        a_infixed == orelse(a_qualIdent, "parse_infixed")
        a_numLit == orelse(a_infixed, "parse_numLit")
        a_chrLit == orelse(a_numLit, "parse_chrLit")
        a_strLit == orelse(a_chrLit, "parse_strLit")
        a_op == orelse(a_strLit, "parse_op")
    IN  CASE settled(a_var) -> Wrap("subexpr", a_var)
          [] settled(a_assign) -> Wrap("subexpr", a_assign)
          [] settled(a_fnDecl) -> Wrap("subexpr", a_fnDecl)
          [] settled(a_parened) -> Wrap("subexpr", a_parened)
          [] settled(a_return) -> Wrap("subexpr", a_return)
          [] settled(a_case) -> Wrap("subexpr", a_case)
          [] settled(a_ifElse) -> Wrap("subexpr", a_ifElse)
          [] settled(a_try) -> Wrap("subexpr", a_try)
          [] settled(a_while) -> Wrap("subexpr", a_while)
          [] settled(a_for) -> Wrap("subexpr", a_for)
          [] settled(a_lambda) -> Wrap("subexpr", a_lambda)
          [] settled(a_tupleLit) -> Wrap("subexpr", a_tupleLit)
          [] settled(a_listLit) -> Wrap("subexpr", a_listLit)
          [] settled(a_listComp) -> Wrap("subexpr", a_listComp)
          [] settled(a_dictLit) -> Wrap("subexpr", a_dictLit)
          [] settled(a_dictComp) -> Wrap("subexpr", a_dictComp)
          [] settled(a_setLit) -> Wrap("subexpr", a_setLit)
          [] settled(a_setComp) -> Wrap("subexpr", a_setComp)
          [] settled(a_qualIdent) -> Wrap("subexpr", a_qualIdent)
          [] settled(a_infixed) -> Wrap("subexpr", a_infixed)
          [] settled(a_numLit) -> Wrap("subexpr", a_numLit)
          [] settled(a_chrLit) -> Wrap("subexpr", a_chrLit)
          [] settled(a_strLit) -> Wrap("subexpr", a_strLit)
          [] settled(a_op) -> Wrap("subexpr", a_op)
          [] OTHER -> a_op

RECURSIVE expr_loop(_, _, _)
expr_loop(s, expr, seen) ==
    IF Again(s, seen) # NoErr THEN Throw(s, Again(s, seen))
    ELSE LET subexpr == run("parse_subexpr", Tick(s))
         IN  IF Threw(subexpr) THEN subexpr
             ELSE IF ~subexpr.ok THEN Match(subexpr.s, expr)
             ELSE expr_loop(subexpr.s, add_child(expr, subexpr.ast),
                            seen \cup {Cur(s)})

\* An expression inside an expression spends fuel, so the nesting is bounded.
parse_expr(s0) ==
    IF s0.fuel = 0 THEN Throw(s0, FuelOut)
    ELSE LET first_subexpr == run("parse_subexpr", consume_blanks(Tick(s0)))
         IN  IF first_subexpr.ok
             THEN expr_loop(first_subexpr.s,
                            Mk("expr", <<first_subexpr.ast>>), {})
             ELSE first_subexpr

(***************************************************************************)
(* Module header and imports.                                              *)
(***************************************************************************)
\* first identifier, blanks, then the comma loop of identifiers.
ident_list(s, ast, msg) ==
    LET first == Req(run("parse_ident", s), msg)
    IN  IF ~first.ok THEN first
        ELSE comma_loop(consume_blanks(first.s), add_child(ast, first.ast),
                        "parse_ident")

\* The newline that ends a declaration.
EndDecl(r, msg) ==
    IF r.ok
    THEN LET n == run("expect_newline", r.s)
         IN  IF n.ok THEN Match(n.s, r.ast) ELSE Throw(n.s, msg)
    ELSE r

parse_modDecl(s0) ==
    Prod("parse_modDecl", s0,
         LET kw == run("parse_moduleKeyword", s0)
         IN  IF ~kw.ok THEN kw
             ELSE LET mod_name == Req(run("parse_ident", kw.s),
                          "expected name of module to be plain identifier")
             IN  IF ~mod_name.ok THEN mod_name
             ELSE LET exposing == run("parse_exposingKeyword", 
                                      consume_blanks(mod_name.s))
                      hiding == run("parse_hidingKeyword", exposing.s)
                      word == IF exposing.ok THEN exposing ELSE hiding
                      mod_decl == Mk("modDecl", <<kw.ast, mod_name.ast>>)
                  IN  EndDecl(IF ~word.ok THEN Match(word.s, mod_decl)
                              ELSE ident_list(word.s,
                                       add_child(mod_decl, word.ast),
                          "expected at least one item in module export/hide list"),
                          "expected newline after module declaration"))

import_list(s, import) ==
    LET hiding == run("parse_hidingKeyword", s)
        l_paren == Req(run("parse_lParen", consume_blanks(hiding.s)),
                       "expected left paren to start import list")
    IN  IF ~l_paren.ok THEN l_paren
        ELSE LET items == ident_list(l_paren.s,
                              [import EXCEPT !.children = @ \o
                                  (IF hiding.ok THEN <<hiding.ast>> ELSE <<>>)
                                  \o <<l_paren.ast>>],
                          "expected at least one import item in import list")
             IN  IF Threw(items) THEN items
                 ELSE Close(Match(consume_blanks(items.s), items.ast),
                            "parse_rParen",
                            "expected right paren to terminate import list")

parse_import(s0) ==
    Prod("parse_import", s0,
         LET kw == run("parse_importKeyword", s0)
         IN  IF ~kw.ok THEN kw
             ELSE LET mod_name == Req(run("parse_ident", kw.s),
                                  "expected module name after import keyword")
             IN  IF ~mod_name.ok THEN mod_name
             ELSE LET as_keyword == run("parse_asKeyword", consume_blanks(mod_name.s))
                      import == Mk("import", <<kw.ast, mod_name.ast>>)
                  IN  EndDecl(IF as_keyword.ok
                              THEN Close(Match(as_keyword.s,
                                             add_child(import, as_keyword.ast)),
                                         "parse_ident",
                                    "expected namespace alias after as keyword")
                              ELSE import_list(as_keyword.s, import),
                              "expected newline after import statement"))

(***************************************************************************)
(* The productions by name, for the ordered choices and the comma loops.   *)
(***************************************************************************)
run(name, s) ==
    CASE name = "parse_fnKeyword" -> parse_fnKeyword(s)
      [] name = "parse_caseKeyword" -> parse_caseKeyword(s)
      [] name = "parse_ifKeyword" -> parse_ifKeyword(s)
      [] name = "parse_elseKeyword" -> parse_elseKeyword(s)
      [] name = "parse_tryKeyword" -> parse_tryKeyword(s)
      [] name = "parse_catchKeyword" -> parse_catchKeyword(s)
      [] name = "parse_whileKeyword" -> parse_whileKeyword(s)
      [] name = "parse_forKeyword" -> parse_forKeyword(s)
      [] name = "parse_inKeyword" -> parse_inKeyword(s)
      [] name = "parse_varKeyword" -> parse_varKeyword(s)
      [] name = "parse_moduleKeyword" -> parse_moduleKeyword(s)
      [] name = "parse_exposingKeyword" -> parse_exposingKeyword(s)
      [] name = "parse_hidingKeyword" -> parse_hidingKeyword(s)
      [] name = "parse_importKeyword" -> parse_importKeyword(s)
      [] name = "parse_asKeyword" -> parse_asKeyword(s)
      [] name = "parse_returnKeyword" -> parse_returnKeyword(s)
      [] name = "parse_underscore" -> parse_underscore(s)
      [] name = "parse_dot" -> parse_dot(s)
      [] name = "parse_colon" -> parse_colon(s)
      [] name = "parse_doubleColon" -> parse_doubleColon(s)
      [] name = "parse_lArrow" -> parse_lArrow(s)
      [] name = "parse_rArrow" -> parse_rArrow(s)
      [] name = "parse_fatRArrow" -> parse_fatRArrow(s)
      [] name = "parse_equals" -> parse_equals(s)
      [] name = "parse_singleQuote" -> parse_singleQuote(s)
      [] name = "parse_doubleQuote" -> parse_doubleQuote(s)
      [] name = "parse_comma" -> parse_comma(s)
      [] name = "parse_lParen" -> parse_lParen(s)
      [] name = "parse_rParen" -> parse_rParen(s)
      [] name = "parse_lSqBracket" -> parse_lSqBracket(s)
      [] name = "parse_rSqBracket" -> parse_rSqBracket(s)
      [] name = "parse_lCurlyBracket" -> parse_lCurlyBracket(s)
      [] name = "parse_rCurlyBracket" -> parse_rCurlyBracket(s)
      [] name = "parse_backslash" -> parse_backslash(s)
      [] name = "parse_bar" -> parse_bar(s)
      [] name = "parse_backtick" -> parse_backtick(s)
      [] name = "consume_lineCommentOp" -> consume_lineCommentOp(s)
      [] name = "parse_ident" -> parse_ident(s)
      [] name = "parse_memberIdent" -> parse_memberIdent(s)
      [] name = "parse_scopedIdent" -> parse_scopedIdent(s)
      [] name = "parse_qualIdent" -> parse_qualIdent(s)
      [] name = "parse_namespacedIdent" -> parse_namespacedIdent(s)
      [] name = "parse_typeIdent" -> parse_typeIdent(s)
      [] name = "parse_op" -> parse_op(s)
      [] name = "parse_numLit" -> parse_numLit(s)
      [] name = "parse_chrChr" -> parse_chrChr(s)
      [] name = "parse_strChr" -> parse_strChr(s)
      [] name = "parse_chrLit" -> parse_chrLit(s)
      [] name = "parse_strLit" -> parse_strLit(s)
      [] name = "parse_infixed" -> parse_infixed(s)
      [] name = "parse_pattern" -> parse_pattern(s)
      [] name = "expect_newline" -> expect_newline(s)
      [] name = "parse_line" -> parse_line(s, TRUE)
      [] name = "parse_line(false)" -> parse_line(s, FALSE)
      [] name = "parse_param" -> parse_param(s)
      [] name = "parse_generator" -> parse_generator(s)
      [] name = "parse_dictEntry" -> parse_dictEntry(s)
      [] name = "parse_caseBranch" -> parse_caseBranch(s)
      [] name = "parse_var" -> parse_var(s)
      [] name = "parse_assign" -> parse_assign(s)
      [] name = "parse_fnDecl" -> parse_fnDecl(s)
      [] name = "parse_parened" -> parse_parened(s)
      [] name = "parse_return" -> parse_return(s)
      [] name = "parse_case" -> parse_case(s)
      [] name = "parse_ifElse" -> parse_ifElse(s)
      [] name = "parse_try" -> parse_try(s)
      [] name = "parse_while" -> parse_while(s)
      [] name = "parse_for" -> parse_for(s)
      [] name = "parse_lambda" -> parse_lambda(s)
      [] name = "parse_tupleLit" -> parse_tupleLit(s)
      [] name = "parse_listLit" -> parse_listLit(s)
      [] name = "parse_dictLit" -> parse_dictLit(s)
      [] name = "parse_setLit" -> parse_setLit(s)
      [] name = "parse_listComp" -> parse_listComp(s)
      [] name = "parse_dictComp" -> parse_dictComp(s)
      [] name = "parse_setComp" -> parse_setComp(s)
      [] name = "parse_subexpr" -> parse_subexpr(s)
      [] name = "parse_expr" -> parse_expr(s)
      [] name = "parse_modDecl" -> parse_modDecl(s)
      [] name = "parse_import" -> parse_import(s)

(***************************************************************************)
(* What reading back() of an empty std::vector does: a fault, or a         *)
(* character that was never in the input.                                  *)
(***************************************************************************)
Garbage == "garbage"
UbOutcomes == {Crashed, Garbage}

(***************************************************************************)
(* The sources the parser is run on.                                       *)
(***************************************************************************)
\* a\n
SrcIdent == <<"a", "\n">>

\* a
SrcIdentNoNewline == <<"a">>

\* 
SrcEmpty == <<>>

\* )\n
SrcRParen == <<")", "\n">>

\* iffy\n
SrcIffy == <<"i", "f", "f", "y", "\n">>

\* varx = 1\n
SrcVarx == <<"v", "a", "r", "x", " ", "=", " ", "1", "\n">>

\* var x = 1\n
SrcVar == <<"v", "a", "r", " ", "x", " ", "=", " ", "1", "\n">>

\* ()\n
SrcUnit == <<"(", ")", "\n">>

\* (a)\n
SrcParened == <<"(", "a", ")", "\n">>

\* (a, b)\n
SrcPair == <<"(", "a", ",", " ", "b", ")", "\n">>

\* (a,)\n
SrcTrailingComma == <<"(", "a", ",", ")", "\n">>

\* .\n
SrcDot == <<".", "\n">>

\* a + b\n
SrcPlus == <<"a", " ", "+", " ", "b", "\n">>

\* fn id x -> T\n  x\n
SrcFnDecl ==
    <<"f", "n", " ", "i", "d", " ", "x", " ", "-", ">", " ", "T", "\n",
      " ", " ", "x", "\n">>

\* case x\n  1 => "one"\n  _ => "other"\n
SrcCase == <<"c", "a", "s", "e", " ", "x", "\n", " ", " ", "1", " ", "=", ">",
      " ", "\"", "o", "n", "e", "\"", "\n", " ", " ", "_", " ", "=",
      ">", " ", "\"", "o", "t", "h", "e", "r", "\"", "\n">>

\* [x | x <- xs, x > 0]\n
SrcListComp ==
    <<"[", "x", " ", "|", " ", "x", " ", "<", "-", " ", "x", "s", ",",
      " ", "x", " ", ">", " ", "0", "]", "\n">>

\* if a\n  b\nc\n
SrcIfDedent == <<"i", "f", " ", "a", "\n", " ", " ", "b", "\n", "c", "\n">>

\* if a\n  b\n  c\n
SrcIfTwo == <<"i", "f", " ", "a", "\n", " ", " ", "b", "\n", " ", " ", "c",
      "\n">>

\* {a}\n
SrcDictLit == <<"{", "a", "}", "\n">>

\* fn f (x -> T\n  y\n
SrcParamNoColon ==
    <<"f", "n", " ", "f", " ", "(", "x", " ", "-", ">", " ", "T", "\n",
      " ", " ", "y", "\n">>

\* _\n
SrcUnderscore == <<"_", "\n">>

\* module m\na\n
SrcModule == <<"m", "o", "d", "u", "l", "e", " ", "m", "\n", "a", "\n">>

\* import m as n\na\n
SrcImport ==
    <<"i", "m", "p", "o", "r", "t", " ", "m", " ", "a", "s", " ", "n",
      "\n", "a", "\n">>

\*  a\n
SrcLeadingBlank == <<" ", "a", "\n">>

\* 1\n
SrcOne == <<"1", "\n">>

\* x = 1\n
SrcAssign == <<"x", " ", "=", " ", "1", "\n">>

\* x = a\n
SrcAssignA == <<"x", " ", "=", " ", "a", "\n">>

\* while a\n  b\nc\n
SrcWhileDedent ==
    <<"w", "h", "i", "l", "e", " ", "a", "\n", " ", " ", "b", "\n",
      "c", "\n">>

\* while a\n  b\n  c\n
SrcWhileTwo == <<"w", "h", "i", "l", "e", " ", "a", "\n", " ", " ", "b", "\n",
      " ", " ", "c", "\n">>

\* a | b\n
SrcBar == <<"a", " ", "|", " ", "b", "\n">>

\* case x\n  1=> "one"\n  _=> "other"\n
SrcCaseTight ==
    <<"c", "a", "s", "e", " ", "x", "\n", " ", " ", "1", "=", ">", " ",
      "\"", "o", "n", "e", "\"", "\n", " ", " ", "_", "=", ">", " ",
      "\"", "o", "t", "h", "e", "r", "\"", "\n">>

\* case x\n  1=\n
SrcCaseEq == <<"c", "a", "s", "e", " ", "x", "\n", " ", " ", "1", "=", "\n">>

\* fn id x -> T\n  x
SrcFnDeclNoNewline ==
    <<"f", "n", " ", "i", "d", " ", "x", " ", "-", ">", " ", "T", "\n",
      " ", " ", "x">>

\* fn f ->\n
SrcFnArrow == <<"f", "n", " ", "f", " ", "-", ">", "\n">>

\* fn f ->
SrcFnArrowEof == <<"f", "n", " ", "f", " ", "-", ">">>

\* module m exposing (a, b)\na\n
SrcModExposing ==
    <<"m", "o", "d", "u", "l", "e", " ", "m", " ", "e", "x", "p", "o",
      "s", "i", "n", "g", " ", "(", "a", ",", " ", "b", ")", "\n", "a",
      "\n">>

\* module m hiding (a, b)\na\n
SrcModHiding ==
    <<"m", "o", "d", "u", "l", "e", " ", "m", " ", "h", "i", "d", "i",
      "n", "g", " ", "(", "a", ",", " ", "b", ")", "\n", "a", "\n">>

\* module m exposing a, b\na\n
SrcModBare ==
    <<"m", "o", "d", "u", "l", "e", " ", "m", " ", "e", "x", "p", "o",
      "s", "i", "n", "g", " ", "a", ",", " ", "b", "\n", "a", "\n">>

\* module m
SrcModNoNewline == <<"m", "o", "d", "u", "l", "e", " ", "m">>

\* module m\nimport n\na\n
SrcImportPlain ==
    <<"m", "o", "d", "u", "l", "e", " ", "m", "\n", "i", "m", "p", "o",
      "r", "t", " ", "n", "\n", "a", "\n">>

\* module m\nimport n as p\nimport q (a, b)\nimport r hiding (a, b)\na\n
SrcImports ==
    <<"m", "o", "d", "u", "l", "e", " ", "m", "\n", "i", "m", "p", "o",
      "r", "t", " ", "n", " ", "a", "s", " ", "p", "\n", "i", "m", "p",
      "o", "r", "t", " ", "q", " ", "(", "a", ",", " ", "b", ")", "\n",
      "i", "m", "p", "o", "r", "t", " ", "r", " ", "h", "i", "d", "i",
      "n", "g", " ", "(", "a", ",", " ", "b", ")", "\n", "a", "\n">>

\* a.b\n
SrcMember == <<"a", ".", "b", "\n">>

\* a::b\n
SrcScoped == <<"a", ":", ":", "b", "\n">>

\* case x\n  1=>>2\n
SrcCaseFat ==
    <<"c", "a", "s", "e", " ", "x", "\n", " ", " ", "1", "=", ">", ">",
      "2", "\n">>

\* x\nif a\n  b\nelse\n  c\n
SrcIfElse == <<"x", "\n", "i", "f", " ", "a", "\n", " ", " ", "b", "\n", "e",
      "l", "s", "e", "\n", " ", " ", "c", "\n">>

\* x\nif a\n  b\nc\n
SrcIfThen == <<"x", "\n", "i", "f", " ", "a", "\n", " ", " ", "b", "\n", "c",
      "\n">>

\* while a\nb\n
SrcWhileFlat == <<"w", "h", "i", "l", "e", " ", "a", "\n", "b", "\n">>

\* while a\n while b\n\n		c\n
SrcWhileTab ==
    <<"w", "h", "i", "l", "e", " ", "a", "\n", " ", "w", "h", "i", "l",
      "e", " ", "b", "\n", "\n", "\t", "\t", "c", "\n">>

\* while a )\n  b\n
SrcWhileParen ==
    <<"w", "h", "i", "l", "e", " ", "a", " ", ")", "\n", " ", " ", "b",
      "\n">>

\* -a\n
SrcMinus == <<"-", "a", "\n">>

\* -1\n
SrcMinusOne == <<"-", "1", "\n">>

\* "a\nb c"\n
SrcStr == <<"\"", "a", "\\", "n", "b", " ", "c", "\"", "\n">>

\* "a\qb"\n
SrcStrBadEsc == <<"\"", "a", "\\", "q", "b", "\"", "\n">>

\* "\0"\n
SrcStrNul == <<"\"", "\\", "0", "\"", "\n">>

\* 'a'\n
SrcChr == <<"'", "a", "'", "\n">>

\* '\n'\n
SrcChrEsc == <<"'", "\\", "n", "'", "\n">>

\* '\q'\n
SrcChrBadEsc == <<"'", "\\", "q", "'", "\n">>

\* ''\n
SrcChrEmpty == <<"'", "'", "\n">>

\* "ab\n
SrcStrOpen == <<"\"", "a", "b", "\n">>

\* "ab
SrcStrOpenEof == <<"\"", "a", "b">>

\* fn f\n  if a\n    b\n  c\n
SrcFnIf == <<"f", "n", " ", "f", "\n", " ", " ", "i", "f", " ", "a", "\n",
      " ", " ", " ", " ", "b", "\n", " ", " ", "c", "\n">>

\* a -- c\nb\n
SrcComment == <<"a", " ", "-", "-", " ", "c", "\n", "b", "\n">>

\* x\n-- c\nb\n
SrcCommentLine == <<"x", "\n", "-", "-", " ", "c", "\n", "b", "\n">>

\* a == b\n
SrcEqEq == <<"a", " ", "=", "=", " ", "b", "\n">>

\* var a == b\n
SrcVarEqEq == <<"v", "a", "r", " ", "a", " ", "=", "=", " ", "b", "\n">>

\* a =>b\n
SrcEqGt == <<"a", " ", "=", ">", "b", "\n">>

Inputs ==
    {SrcIdent, SrcIdentNoNewline, SrcEmpty, SrcRParen, SrcIffy, SrcVarx,
     SrcVar, SrcUnit, SrcParened, SrcPair, SrcTrailingComma, SrcDot,
     SrcPlus, SrcFnDecl, SrcCase, SrcListComp, SrcIfDedent, SrcIfTwo,
     SrcDictLit, SrcParamNoColon, SrcUnderscore, SrcModule, SrcImport,
     SrcLeadingBlank, SrcOne, SrcAssign, SrcAssignA, SrcWhileDedent,
     SrcWhileTwo, SrcBar, SrcCaseTight, SrcCaseEq, SrcFnDeclNoNewline,
     SrcFnArrow, SrcFnArrowEof, SrcModExposing, SrcModHiding, SrcModBare,
     SrcModNoNewline, SrcImportPlain, SrcImports, SrcMember, SrcScoped,
     SrcCaseFat, SrcIfElse, SrcIfThen, SrcWhileFlat, SrcWhileTab,
     SrcWhileParen, SrcMinus, SrcMinusOne, SrcStr, SrcStrBadEsc, SrcStrNul,
     SrcChr, SrcChrEsc, SrcChrBadEsc, SrcChrEmpty, SrcStrOpen,
     SrcStrOpenEof, SrcFnIf, SrcComment, SrcCommentLine, SrcEqEq,
     SrcVarEqEq, SrcEqGt}

(***************************************************************************)
(* Bounds of the model.                                                    *)
(***************************************************************************)
\* Loop passes and guarded calls allowed inside one step.
MaxFuel == 400
\* Top-level items after which the model gives up.
MaxItems == 12

\* The value of last_ch before any character is seen ('\0').
NUL == "nul"

(***************************************************************************)
(* The parser object between two steps, and the steps of parse().          *)
(***************************************************************************)
Load ==
    [ch |-> ch, charhistory |-> charhistory, charstream |-> charstream,
     eof |-> eof, currentindent |-> currentindent, lineprefix |-> lineprefix,
     log |-> log, fuel |-> MaxFuel, ub |-> ubOutcome]

Store(s) ==
    /\ ch' = s.ch
    /\ charhistory' = s.charhistory
    /\ charstream' = s.charstream
    /\ eof' = s.eof
    /\ currentindent' = s.currentindent
    /\ lineprefix' = s.lineprefix
    /\ log' = s.log

\* Where an exception, a fault or an endless loop leaves parse().
Fail(msg) ==
    /\ pc' = CASE msg = Diverged -> "diverged"
               [] msg = Crashed -> "crashed"
               [] msg = FuelOut -> "fuel"
               [] OTHER -> "error"
    /\ err' = msg

\* The condition of both loops of parse_prog.
more(s) == ~s.eof \/ s.charhistory # <<>>

Init ==
    /\ input \in Inputs
    /\ ubOutcome \in UbOutcomes
    /\ ch = " "
    /\ charhistory = <<>>
    /\ charstream = input
    /\ eof = FALSE
    /\ currentindent = <<>>
    /\ lineprefix = <<>>
    /\ log = <<>>
    /\ visited = {}
    /\ pc = "parse"
    /\ prog = Node("prog")
    /\ result = NoAST
    /\ err = NoErr

RECURSIVE skip_space(_, _)
skip_space(s, last_ch) ==
    LET r == stream_get(s)
    IN  IF ~r.ok \/ ~isspace(r.s.ch) THEN [s |-> r.s, last_ch |-> last_ch]
        ELSE skip_space(r.s, r.s.ch)

\* parse() up to its call of parse_prog.
ParseSkip ==
    /\ pc = "parse"
    /\ LET k == skip_space(Load, NUL)
       IN  /\ Store(k.s)
           /\ IF k.last_ch # NUL /\ ~isnewline(k.last_ch)
              THEN Fail("source must not start with leading whitespace")
              ELSE pc' = "modDecl" /\ err' = err
    /\ UNCHANGED <<input, ubOutcome, visited, prog, result>>

\* parse_prog: the optional module declaration.
ProgModDecl ==
    /\ pc = "modDecl"
    /\ LET mod_decl(r) ==
               /\ Store(r.s)
               /\ IF Threw(r) THEN Fail(r.err) /\ prog' = prog
                  ELSE /\ pc' = "imports"
                       /\ err' = err
                       /\ prog' = IF r.ok THEN add_child(prog, r.ast) ELSE prog
       IN  mod_decl(run("parse_modDecl", Load))
    /\ UNCHANGED <<input, ubOutcome, visited, result>>

\* parse_prog: one test of the first loop's condition and, if it holds, one
\* pass.
ProgImport ==
    /\ pc = "imports"
    /\ IF ~more(Load)
       THEN /\ pc' = "lines"
            /\ UNCHANGED <<ch, charhistory, charstream, eof, currentindent,
                           lineprefix, log, prog, err>>
       ELSE LET import(r) ==
                    /\ Store(r.s)
                    /\ IF Threw(r) THEN Fail(r.err) /\ prog' = prog
                       ELSE IF ~r.ok
                       THEN pc' = "lines" /\ err' = err /\ prog' = prog
                       ELSE IF Len(prog.children) >= MaxItems
                       THEN Fail(FuelOut) /\ prog' = prog
                       ELSE /\ pc' = "imports"
                            /\ err' = err
                            /\ prog' = add_child(prog, r.ast)
            IN  import(run("parse_import", Load))
    /\ UNCHANGED <<input, ubOutcome, visited, result>>

\* parse_prog: one test of the second loop's condition and, if it holds, one
\* pass.  parse_line always yields a line, so the loop has no other exit; a
\* pass that starts on a cursor seen before repeats for ever.
ProgLine ==
    /\ pc = "lines"
    /\ IF ~more(Load)
       THEN /\ pc' = "return"
            /\ UNCHANGED <<ch, charhistory, charstream, eof, currentindent,
                           lineprefix, log, visited, prog, err>>
       ELSE IF Cur(Load) \in visited
       THEN /\ Fail(Diverged)
            /\ UNCHANGED <<ch, charhistory, charstream, eof, currentindent,
                           lineprefix, log, visited, prog>>
       ELSE LET line(r) ==
                    /\ Store(r.s)
                    /\ visited' = visited \cup {Cur(Load)}
                    /\ IF Threw(r) THEN Fail(r.err) /\ prog' = prog
                       ELSE IF Len(prog.children) >= MaxItems
                       THEN Fail(FuelOut) /\ prog' = prog
                       ELSE /\ pc' = "lines"
                            /\ err' = err
                            /\ prog' = add_child(prog, r.ast)
            IN  line(run("parse_line", Load))
    /\ UNCHANGED <<input, ubOutcome, result>>

\* parse(): the root node around the program.
ParseReturn ==
    /\ pc = "return"
    /\ result' = Mk("root", <<prog>>)
    /\ pc' = "done"
    /\ UNCHANGED <<input, ubOutcome, ch, charhistory, charstream, eof,
                   currentindent, lineprefix, log, visited, prog, err>>

Next == ParseSkip \/ ProgModDecl \/ ProgImport \/ ProgLine \/ ParseReturn

Spec == Init /\ [][Next]_vars

\* parse() is one call: once started it keeps running.
FairSpec == Spec /\ WF_vars(Next)

(***************************************************************************)
(* The character source by itself: advance() and push-backs onto the front *)
(* of charhistory, called in any order on a parser object whose stream     *)
(* holds a short text.  Each call is recorded with the cursor around it.   *)
(***************************************************************************)
\* Calls made on one parser object.
MaxCalls == 4

\* The texts of the stream, and the characters that are pushed back.
Streams ==
    {<<>>, <<"a">>, <<"b">>, <<"a", "a">>, <<"a", "b">>, <<"b", "a">>,
     <<"b", "b">>}

Pushed == {"x", "y"}

CallsInit ==
    /\ input \in Streams
    /\ ubOutcome = Crashed
    /\ ch = " "
    /\ charhistory = <<>>
    /\ charstream = input
    /\ eof = FALSE
    /\ currentindent = <<>>
    /\ lineprefix = <<>>
    /\ log = <<>>
    /\ visited = {}
    /\ pc = "calls"
    /\ prog = Node("prog")
    /\ result = NoAST
    /\ err = NoErr

CallAdvance ==
    /\ pc = "calls"
    /\ Len(log) < MaxCalls
    /\ LET called(r) ==
               Store(Ev(r.s, Call("advance", <<>>,
                                  IF r.ok THEN "true" ELSE "false",
                                  Load, r.s)))
       IN  called(advance(Load))
    /\ UNCHANGED <<input, ubOutcome, visited, pc, prog, result, err>>

CallPushFront ==
    /\ pc = "calls"
    /\ Len(log) < MaxCalls
    /\ \E c \in Pushed :
           LET pushed(t) ==
                   Store(Ev(t, Call("push_front", <<c>>, "", Load, t)))
           IN  pushed(push_front(Load, c))
    /\ UNCHANGED <<input, ubOutcome, visited, pc, prog, result, err>>

CallsNext == CallAdvance \/ CallPushFront

CallsSpec == CallsInit /\ [][CallsNext]_vars

(***************************************************************************)
(* Reading the outcome of a parse.                                         *)
(***************************************************************************)
\* parse() has returned a tree, raised an error, faulted, or entered a loop
\* that never ends.
Finished == pc \in {"done", "error", "crashed", "diverged", "fuel"}

\* The lexemes of the terminal nodes, left to right, as one text.
RECURSIVE terminals(_)
RECURSIVE terminals_from(_, _)
terminals_from(children, i) ==
    IF i > Len(children) THEN <<>>
    ELSE terminals(children[i]) \o terminals_from(children, i + 1)

terminals(ast) ==
    IF ast.children = <<>> THEN ast.lexeme
    ELSE terminals_from(ast.children, 1)

\* The nodes of one type, in depth-first order.
RECURSIVE nodes(_, _)
RECURSIVE nodes_from(_, _, _)
nodes_from(children, i, type) ==
    IF i > Len(children) THEN <<>>
    ELSE nodes(children[i], type) \o nodes_from(children, i + 1, type)

nodes(ast, type) ==
    (IF ast.type = type THEN <<ast>> ELSE <<>>)
    \o nodes_from(ast.children, 1, type)

\* The types of a node's children, in order.
types(ast) == [i \in DOMAIN ast.children |-> ast.children[i].type]

without_space(text) == SelectSeq(text, LAMBDA c : ~isspace(c))

has_comment(text) ==
    \E i \in 1..(Len(text) - 1) : text[i] = "-" /\ text[i + 1] = "-"

starts_with(text, word) ==
    Len(text) >= Len(word) /\ SubSeq(text, 1, Len(word)) = word

(***************************************************************************)
(* C1.  For every comment-free source that parse() accepts, the lexemes of *)
(* the tree's terminal nodes, concatenated in left-to-right depth-first    *)
(* order, are the source with its whitespace removed: no character is      *)
(* lost, duplicated or reordered.                                          *)
(* Refuted: of "iffy" the tree holds the identifier "fify" (the stream     *)
(* loop of expect_keyword("import") leaves the characters it matched       *)
(* behind the one that did not match), and of "{a}" it holds "{}".         *)
(***************************************************************************)
C1_TerminalsReproduceSource ==
    (pc = "done" /\ ~has_comment(input))
        => terminals(result) = without_space(input)

(***************************************************************************)
(* C2.  Every production that returns no-match leaves the remaining input  *)
(* (current character, rewind queue, unread stream) as it was before the   *)
(* call, skipped leading blanks aside; this covers parse_param after `(`,  *)
(* parse_dictEntry after a key and parse_ident on a lone `_`.              *)
(* Refuted: parse_param returns no-match on "(x ->" with "(x" consumed,    *)
(* parse_dictEntry on "a}" with "a" consumed.                              *)
(***************************************************************************)
C2_NoMatchRestoresInput ==
    \A i \in DOMAIN log :
        log[i].res = "nomatch" => SameInput(log[i].pre, log[i].post)

(***************************************************************************)
(* C3.  For every finite input parse() terminates, with a tree or with an  *)
(* error: no loop of the parser starts a pass on a parser state on which   *)
(* an earlier pass of that loop started.  This includes inputs that do not *)
(* end in a newline and inputs with a character no production accepts.     *)
(* Refuted: on ")" at the start of a line parse_line consumes nothing and  *)
(* the second loop of parse_prog repeats; on "a" without a newline the     *)
(* loop of parse_expr repeats.                                             *)
(***************************************************************************)
C3_ParseTerminates == pc # "diverged"

(***************************************************************************)
(* C4.  expect_keyword(word) returns true only when the input at the       *)
(* cursor is word followed by the end of the input or by a character that  *)
(* is neither alphanumeric nor an underscore, wherever the characters come *)
(* from; and "iffy" parses as the single identifier iffy.                  *)
(* Refuted: on "varx = 1" expect_keyword("var") returns true (its stream   *)
(* loop answers i == kwd.length() whatever follows), and "iffy" parses as  *)
(* the identifier "fify".                                                  *)
(***************************************************************************)
keyword_at(text, word) ==
    /\ starts_with(text, word)
    /\ Len(text) = Len(word) \/ ~isidentchar(text[Len(word) + 1])

identifier_line(name) ==
    Mk("root", <<Mk("prog", <<Mk("line", <<Mk("expr", <<Mk("subexpr",
        <<Mk("qualIdent", <<Leaf("ident", name)>>)>>)>>)>>)>>)>>)

C4_KeywordNeedsBoundary ==
    /\ \A i \in DOMAIN log :
          (log[i].op = "expect_keyword" /\ log[i].res = "true")
              => keyword_at(Rem(log[i].pre), log[i].arg)
    /\ (input = SrcIffy /\ Finished)
          => (pc = "done" /\ result = identifier_line(<<"i", "f", "f", "y">>))

(***************************************************************************)
(* C5.  Of the expressions that start with `(`: "()" parses to an empty    *)
(* tuple literal, "(a)" to a parenthesized expression and not a tuple,     *)
(* "(a, b)" to a tuple literal of two elements, and "(a,)" raises an       *)
(* error.                                                                  *)
(* Refuted: parse_assign is tried first and its parse_pattern commits on   *)
(* `(`: "(a)" and "(a, b)" end in errors of the pattern and of             *)
(* parse_parened, and "()" in "expected expression within parens".         *)
(***************************************************************************)
count(ast, type) == Len(SelectSeq(ast.children, LAMBDA c : c.type = type))

\* The tree is one line holding one expression of one subexpression, which
\* is a node of the given type with the given number of elements.
one_node(type, elements) ==
    /\ pc = "done"
    /\ Len(nodes(result, "subexpr")) >= 1
    /\ types(nodes(result, "subexpr")[1]) = <<type>>
    /\ Len(nodes(result, type)) = 1
    /\ count(nodes(result, type)[1], "expr") = elements
    /\ count(nodes(result, type)[1], "lParen") = 1
    /\ count(nodes(result, type)[1], "rParen") = 1

C5_ParenForms ==
    /\ (input = SrcUnit /\ Finished) => one_node("tupleLit", 0)
    /\ (input = SrcParened /\ Finished) => one_node("parened", 1)
    /\ (input = SrcPair /\ Finished) => one_node("tupleLit", 2)
    /\ (input = SrcTrailingComma /\ Finished) => pc = "error"

(***************************************************************************)
(* C6.  parse_op, reached at one of the ten reserved lexemes, raises an    *)
(* error; reached at any other non-empty maximal run of operator           *)
(* characters it returns an op node whose lexeme is that run.              *)
(* Refuted: `.` is in reserved_ops but not in op_chars, so at "." parse_op *)
(* reads no character and returns no-match.                                *)
(***************************************************************************)
RECURSIVE op_run(_)
op_run(text) ==
    IF text # <<>> /\ Head(text) \in op_chars
    THEN <<Head(text)>> \o op_run(Tail(text))
    ELSE <<>>

\* The text starts with the lexeme and no operator character follows it.
lexeme_at(text, lexeme) ==
    /\ starts_with(text, lexeme)
    /\ Len(text) = Len(lexeme) \/ text[Len(lexeme) + 1] \notin op_chars

C6_ParseOpAnswers ==
    \A i \in DOMAIN log :
        log[i].op = "parse_op" =>
            LET text == strip_blanks(Rem(log[i].pre))
            IN  /\ (\E r \in reserved_ops : lexeme_at(text, r))
                      => log[i].res = "throw"
                /\ (op_run(text) # <<>> /\ op_run(text) \notin reserved_ops)
                      => (log[i].res = "match" /\ log[i].arg = op_run(text))

(***************************************************************************)
(* C7.  Every block that get_block accepts has at least one item, and      *)
(* every item added to a block starts on a source line whose prefix of     *)
(* blanks is the block's indentation string.                               *)
(* Refuted: expect_newline never clears currentindent for the newline it   *)
(* starts on, so after the item "  b" the line "c" (no blanks) is read     *)
(* with currentindent still "  " and is added to the block.                *)
(***************************************************************************)
C7_BlockItemsShareIndent ==
    \A i \in DOMAIN log :
        /\ log[i].op = "get_block" => log[i].arg[1] >= 1
        /\ log[i].op = "block_item" => log[i].arg[1] = log[i].arg[2]

(***************************************************************************)
(* C8.  "fn id x -> T", a newline and the indented body line "x" parse to  *)
(* a tree whose fnDecl node has, in order, the fn keyword, the name id,    *)
(* one param holding the pattern x, the arrow, the return type T and one   *)
(* body line whose expression is the identifier x.                         *)
(***************************************************************************)
ident(name) == Leaf("ident", name)

expr_of(sub) == Mk("expr", <<Mk("subexpr", <<sub>>)>>)

fnDecl_id ==
    Mk("fnDecl", <<Leaf("fnKeyword", <<"f", "n">>),
                   ident(<<"i", "d">>),
                   Mk("param", <<Mk("pattern", <<ident(<<"x">>)>>)>>),
                   Leaf("rArrow", <<"-", ">">>),
                   Mk("qualIdent", <<ident(<<"T">>)>>),
                   Mk("line", <<expr_of(Mk("qualIdent",
                                           <<ident(<<"x">>)>>))>>)>>)

C8_FnDeclTree ==
    (input = SrcFnDecl /\ Finished)
        => (pc = "done" /\ nodes(result, "fnDecl") = <<fnDecl_id>>)

\* The declaration has been parsed: the tree is returned with its fnDecl.
C8_FnDeclParsed ==
    input = SrcFnDecl /\ pc = "done" /\ Len(nodes(result, "fnDecl")) = 1

(***************************************************************************)
(* C9.  "case x" with the two indented branch lines `1 => "one"` and       *)
(* `_ => "other"` parses to a case_ node with exactly two caseBranch       *)
(* children, each a pattern, the `=>` and a line, the second pattern being *)
(* the wildcard.                                                           *)
(* Refuted: parse_caseBranch calls parse_fatRArrow without skipping the    *)
(* blank after the pattern and throws "expected => while parsing case      *)
(* branch".                                                                *)
(***************************************************************************)
branches(ast) == SelectSeq(ast.children, LAMBDA c : c.type = "caseBranch")

C9_CaseTree ==
    (input = SrcCase /\ Finished) =>
        /\ pc = "done"
        /\ Len(nodes(result, "case_")) = 1
        /\ LET b == branches(nodes(result, "case_")[1])
           IN  /\ Len(b) = 2
               /\ \A i \in 1..2 :
                      types(b[i]) = <<"pattern", "fatRArrow", "line">>
               /\ types(b[2].children[1]) = <<"underscore">>

(***************************************************************************)
(* C10.  "[x | x <- xs, x > 0]" parses to a listComp node with the result  *)
(* expression x, exactly one generator binding the pattern x over the      *)
(* expression xs, and exactly one condition, the expression x > 0.         *)
(* Refuted: parse_assign is tried first and its parse_pattern commits on   *)
(* `[`; after the pattern x it finds `|` and throws "left square bracket   *)
(* in pattern requires ]".                                                 *)
(***************************************************************************)
of_type(ast, type) == SelectSeq(ast.children, LAMBDA c : c.type = type)

C10_ListCompTree ==
    (input = SrcListComp /\ Finished) =>
        /\ pc = "done"
        /\ Len(nodes(result, "listComp")) = 1
        /\ LET comp == nodes(result, "listComp")[1]
               exprs == of_type(comp, "expr")
               generators == of_type(comp, "generator")
           IN  /\ Len(exprs) = 2
               /\ Len(generators) = 1
               /\ terminals(exprs[1]) = <<"x">>
               /\ types(generators[1]) = <<"pattern", "lArrow", "expr">>
               /\ terminals(generators[1].children[1]) = <<"x">>
               /\ terminals(generators[1].children[3]) = <<"x", "s">>
               /\ terminals(exprs[2]) = <<"x", ">", "0">>

(***************************************************************************)
(* C11.  "fn f ->" with nothing after the arrow, whether the line or the   *)
(* input ends there, raises "expected type after arrow": parse_fnDecl      *)
(* neither returns no-match nor raises another error.                      *)
(* Refuted: when the input ends at the arrow, the read of expect_op that   *)
(* looks past `->` fails and leaves ch = `>`, an operator character, so    *)
(* parse_rArrow is no match and get_block throws "expected newline after   *)
(* header".                                                                *)
(***************************************************************************)
C11_FnArrowNeedsType ==
    (input \in {SrcFnArrow, SrcFnArrowEof} /\ Finished) =>
        (pc = "error" /\ err = "expected type after arrow")

(***************************************************************************)
(* C12.  In every tree that parse() returns there is exactly one root,     *)
(* every node with a lexeme has no children and every node without a       *)
(* lexeme has at least one child, the empty input included.                *)
(* Refuted: for the empty input parse_prog returns a prog node without     *)
(* children, which parse() puts under the root.                            *)
(***************************************************************************)
RECURSIVE leaves_and_inner(_)
RECURSIVE leaves_and_inner_from(_, _)
leaves_and_inner_from(children, i) ==
    IF i > Len(children) THEN TRUE
    ELSE leaves_and_inner(children[i])
         /\ leaves_and_inner_from(children, i + 1)

leaves_and_inner(ast) ==
    /\ ast.lexeme # <<>> => ast.children = <<>>
    /\ ast.lexeme = <<>> => ast.children # <<>>
    /\ leaves_and_inner_from(ast.children, 1)

C12_LeavesAndInnerNodes ==
    pc = "done" =>
        /\ result.type = "root"
        /\ Len(nodes(result, "root")) = 1
        /\ leaves_and_inner(result)

(***************************************************************************)
(* C13.  "module m", "module m exposing (a, b)" and "module m hiding       *)
(* (a, b)", each followed by a newline, are accepted by parse_modDecl and  *)
(* give a modDecl node with the module keyword, the name, the keyword      *)
(* exposing or hiding when present and the listed identifiers in order; a  *)
(* module declaration that no newline ends is an error.                    *)
(* Refuted: parse_modDecl calls parse_ident right after exposing/hiding,   *)
(* so at `(` it throws "expected at least one item in module export/hide   *)
(* list"; the list it accepts has no parentheses.                          *)
(***************************************************************************)
\* The lexemes of the nodes of some types, in depth-first order.
RECURSIVE lexemes(_, _)
RECURSIVE lexemes_from(_, _, _)
lexemes_from(children, i, which) ==
    IF i > Len(children) THEN <<>>
    ELSE lexemes(children[i], which) \o lexemes_from(children, i + 1, which)

lexemes(ast, which) ==
    (IF ast.type \in which THEN <<ast.lexeme>> ELSE <<>>)
    \o lexemes_from(ast.children, 1, which)

\* The module declaration of the returned tree reads as the given words.
modDecl_reads(words) ==
    /\ pc = "done"
    /\ Len(nodes(result, "modDecl")) = 1
    /\ prog.children[1].type = "modDecl"
    /\ lexemes(prog.children[1], {"moduleKeyword", "exposingKeyword",
                                  "hidingKeyword", "ident"}) = words

C13_ModDeclForms ==
    /\ (input = SrcModule /\ Finished) =>
           modDecl_reads(<< <<"m","o","d","u","l","e">>, <<"m">> >>)
    /\ (input = SrcModExposing /\ Finished) =>
           modDecl_reads(<< <<"m","o","d","u","l","e">>, <<"m">>,
                            <<"e","x","p","o","s","i","n","g">>,
                            <<"a">>, <<"b">> >>)
    /\ (input = SrcModHiding /\ Finished) =>
           modDecl_reads(<< <<"m","o","d","u","l","e">>, <<"m">>,
                            <<"h","i","d","i","n","g">>, <<"a">>, <<"b">> >>)
    /\ (input = SrcModNoNewline /\ Finished) => pc = "error"

(***************************************************************************)
(* C14.  After the module header each of "import n", "import n as p",      *)
(* "import q (a, b)" and "import r hiding (a, b)", followed by a newline,  *)
(* is accepted by parse_import; prog gets one import node per statement,   *)
(* in source order and before any line, and the first line that is no      *)
(* import reaches parse_line unchanged.                                    *)
(* Refuted: after the module name parse_import accepts only `as` or a      *)
(* parenthesized list, so "import n" followed by a newline throws          *)
(* "expected left paren to start import list".                             *)
(***************************************************************************)
\* The children of prog have the given types and the last one, a line,
\* reads as the given text.
prog_reads(kinds, last_line) ==
    /\ pc = "done"
    /\ types(prog) = kinds
    /\ terminals(prog.children[Len(kinds)]) = last_line

C14_ImportForms ==
    /\ (input = SrcImportPlain /\ Finished) =>
           /\ prog_reads(<<"modDecl", "import", "line">>, <<"a">>)
           /\ terminals(prog.children[2]) = <<"i","m","p","o","r","t","n">>
    /\ (input = SrcImports /\ Finished) =>
           /\ prog_reads(<<"modDecl", "import", "import", "import", "line">>,
                         <<"a">>)
           /\ lexemes(prog.children[2], {"ident"}) = << <<"n">>, <<"p">> >>
           /\ lexemes(prog.children[3], {"ident"}) =
                  << <<"q">>, <<"a">>, <<"b">> >>
           /\ lexemes(prog.children[4], {"ident", "hidingKeyword"}) =
                  << <<"r">>, <<"h","i","d","i","n","g">>, <<"a">>, <<"b">> >>

(***************************************************************************)
(* C15.  In expression position "a.b" parses to a qualIdent holding a      *)
(* memberIdent (ident, dot, ident), "a::b" to a qualIdent holding a        *)
(* scopedIdent, and a lone "a" to a qualIdent holding the ident a: `.` and *)
(* `::` are accepted there, not raised as reserved operators.              *)
(* Refuted: parse_subexpr tries parse_assign first, whose push-back puts   *)
(* blanks between the pattern a and what followed it; parse_memberIdent    *)
(* and parse_scopedIdent then find no `.` or `::` right after a.  "a.b"    *)
(* is left at the `.` that no production accepts, "a::b" throws "the       *)
(* operator is reserved".                                                  *)
(***************************************************************************)
qualIdent_of(inner) == <<Mk("qualIdent", <<inner>>)>>

C15_QualIdentForms ==
    /\ (input = SrcIdent /\ Finished) =>
           /\ pc = "done"
           /\ nodes(result, "qualIdent") = qualIdent_of(ident(<<"a">>))
    /\ (input = SrcMember /\ Finished) =>
           /\ pc = "done"
           /\ nodes(result, "qualIdent") =
                  qualIdent_of(Mk("memberIdent",
                      <<ident(<<"a">>), Leaf("dot", <<".">>),
                        ident(<<"b">>)>>))
    /\ (input = SrcScoped /\ Finished) =>
           /\ pc = "done"
           /\ nodes(result, "qualIdent") =
                  qualIdent_of(Mk("scopedIdent",
                      <<ident(<<"a">>), Leaf("doubleColon", <<":", ":">>),
                        ident(<<"b">>)>>))

(***************************************************************************)
(* C16.  Whenever expect_keyword returns false, the remaining input (the   *)
(* current character, then the rewind queue, then the unread stream) is    *)
(* what it was before the call, wherever the call failed and wherever the  *)
(* matched characters came from.                                           *)
(* Refuted: on "iffy" expect_keyword("import") matches `i`, appends it to  *)
(* the rewind queue and reads `f` from the stream; on that mismatch it     *)
(* returns false with `f` current and `i` queued behind it: the input now  *)
(* reads "fify".                                                           *)
(***************************************************************************)
\* The calls of one matcher that answered false.
refusals(op) ==
    {i \in DOMAIN log : log[i].op = op /\ log[i].res = "false"}

C16_KeywordRefusalRestores ==
    \A i \in refusals("expect_keyword") : Rem(log[i].pre) = Rem(log[i].post)

(***************************************************************************)
(* C17.  Whenever expect_op returns false, the remaining input is what it  *)
(* was before the call, wherever the call failed and wherever the matched  *)
(* characters came from; and its restore step never reads the top of an    *)
(* empty save stack.                                                       *)
(* Refuted: on "case a\n  1=\n" expect_op("=>") matches `=` with an empty  *)
(* rewind queue, reads the newline from the stream, and on that mismatch   *)
(* reads historicstack.back() of the empty vector; where that read does    *)
(* not fault, the newline is lost and the current character is whatever    *)
(* the read gave.                                                          *)
(***************************************************************************)
\* The calls of expect_op in which back() of the empty save stack was read.
empty_stack_reads ==
    {i \in DOMAIN log : /\ log[i].op = "expect_op"
                        /\ \/ log[i].res = Crashed
                           \/ log[i].post.ch = Garbage}

C17_OpRefusalRestores ==
    /\ \A i \in refusals("expect_op") : Rem(log[i].pre) = Rem(log[i].post)
    /\ empty_stack_reads = {}

(***************************************************************************)
(* C18.  expect_op(text) answers true only when the input at the cursor is *)
(* text and the character after it is absent or is no operator character;  *)
(* it then consumes exactly the characters of text, and the current        *)
(* character is the one that followed them.                                *)
(* Refuted: on "case x\n  1=>>2\n" expect_op("=>") takes `>` from the      *)
(* stream and answers true although another `>` follows: the stream path   *)
(* answers by the number of matched characters alone.                      *)
(***************************************************************************)
accepted(op) ==
    {i \in DOMAIN log : log[i].op = op /\ log[i].res = "true"}

rest_after(text, word) == SubSeq(text, Len(word) + 1, Len(text))

C18_OpAcceptsWholeOperator ==
    \A i \in accepted("expect_op") :
        LET before == Rem(log[i].pre)
        IN  /\ lexeme_at(before, log[i].arg)
            /\ Len(before) > Len(log[i].arg) =>
                   Rem(log[i].post) = rest_after(before, log[i].arg)

(***************************************************************************)
(* C19.  After every successful expect_newline, currentindent is exactly   *)
(* the run of blanks at the start of the line that holds the new current   *)
(* character, whatever it held before the call; it is empty when the input *)
(* ends after the newline.                                                 *)
(* Refuted: on "while a\n  b\nc\n" the call after `b` starts on the        *)
(* newline with currentindent = "  " and stops on `c`; only newlines met   *)
(* after the first one clear currentindent, so it is still "  " for the    *)
(* unindented line `c`.                                                    *)
(***************************************************************************)
\* The blanks that end a text, back to its last newline.
RECURSIVE blank_run(_)
blank_run(text) ==
    IF text = <<>> \/ ~isblank(text[Len(text)]) THEN <<>>
    ELSE Append(blank_run(SubSeq(text, 1, Len(text) - 1)), text[Len(text)])

\* The input ran out during the call: ch is the last character that was read.
ran_out(c) ==
    c.eof /\ c.charhistory = <<>> /\ (isnewline(c.ch) \/ isblank(c.ch))

\* What a call took from the input, the new current character excluded.
consumed(pre, post) ==
    IF ran_out(post) THEN Rem(pre)
    ELSE SubSeq(Rem(pre), 1, Len(Rem(pre)) - Len(Rem(post)))

C19_NewlineSetsIndent ==
    \A i \in accepted("expect_newline") :
        LET taken == consumed(log[i].pre, log[i].post)
        IN  IF ran_out(log[i].post)
            THEN isnewline(taken[Len(taken)]) =>
                     log[i].post.currentindent = <<>>
            ELSE log[i].post.currentindent = blank_run(taken)

(***************************************************************************)
(* C20.  When parse_assign has parsed a pattern and finds no `=` after it, *)
(* it answers no match and pushes back exactly the text it consumed: the   *)
(* remaining input is what it was before the call, and a character that    *)
(* directly followed the pattern still directly follows it.                *)
(* Refuted: on "a.b\n" parse_assign consumes `a`, finds `.` and pushes     *)
(* back `a`, two blanks and `.`: the input now reads "a  .b\n".            *)
(***************************************************************************)
\* The calls of parse_assign that pushed a parsed pattern back.
unreads == {i \in DOMAIN log : log[i].op = "parse_assign"
                               /\ log[i].res = "unread"}

C20_AssignUnreadsWhatItRead ==
    \A i \in unreads : Rem(log[i].pre) = Rem(log[i].post)

(***************************************************************************)
(* C21.  When get_block stops at a line whose indentation differs from the *)
(* block's, that line's first token is still unread and currentindent      *)
(* holds that line's indentation; so an `else` at the indentation of its   *)
(* `if` line is attached to the ifElse node with its body.                 *)
(* Refuted: on "x\nif a\n  b\nelse\n  c\n" the line `else` is read with    *)
(* currentindent still "  " (C19), so get_block adds it to the if-block as *)
(* the identifier `else` and stops only at `c`, with currentindent "    ": *)
(* the ifElse node has no else keyword.                                    *)
(***************************************************************************)
\* The blocks that ended before the end of the input.
ended_blocks ==
    {i \in DOMAIN log : log[i].op = "get_block" /\ ~ran_out(log[i].post)}

\* The text ends at the start of a line: a newline, then blanks only.
at_line_start(text) ==
    LET line_end == Len(text) - Len(blank_run(text))
    IN  line_end >= 1 /\ isnewline(text[line_end])

C21_ElseAtIfIndent ==
    /\ \A i \in ended_blocks :
           LET taken == consumed(log[i].pre, log[i].post)
           IN  /\ at_line_start(taken)
               /\ log[i].post.currentindent = blank_run(taken)
    /\ (input = SrcIfElse /\ Finished) =>
           /\ pc = "done"
           /\ Len(nodes(result, "ifElse")) = 1
           /\ types(nodes(result, "ifElse")[1]) =
                  <<"ifKeyword", "expr", "line", "elseKeyword", "line">>

(***************************************************************************)
(* C22.  get_block raises "expected newline after header" when its header  *)
(* is not followed by a newline, and raises "improper indentation after    *)
(* header" exactly when the indentation recorded for the first body line   *)
(* is not strictly longer than the header's or does not start with the     *)
(* header's; in both cases nothing more is parsed and no item is added.    *)
(***************************************************************************)
\* The calls of get_block, each with the cursor around its header's newline.
headers == {i \in DOMAIN log : log[i].op = "header"}

improper_indentation(start_indent, block_indent) ==
    ~(Len(start_indent) < Len(block_indent)
      /\ starts_with(block_indent, start_indent))

\* The parse ended with this error in the call recorded as event i.
raised_at(i, msg) == pc = "error" /\ err = msg /\ i = Len(log)

C22_BlockHeaderErrors ==
    \A i \in headers :
        IF log[i].res = "no newline"
        THEN raised_at(i, "expected newline after header")
        ELSE improper_indentation(log[i].pre.currentindent,
                                  log[i].post.currentindent)
             <=> raised_at(i, "improper indentation after header")

\* A body line whose indentation is longer than the header's but does not
\* start with it was refused.
C22_ForeignIndentRefused ==
    /\ input = SrcWhileTab
    /\ \E i \in headers :
           /\ Len(log[i].pre.currentindent) >= 1
           /\ Len(log[i].pre.currentindent) < Len(log[i].post.currentindent)
           /\ raised_at(i, "improper indentation after header")

(***************************************************************************)
(* C23.  When parse_numLit has consumed a leading `-` and finds neither a  *)
(* digit nor NaN nor Infinity, it answers no match with the `-` pushed     *)
(* back: the remaining input starts with `-` again, followed by what       *)
(* followed it in the source, in the original order.                       *)
(* Refuted: on "-a\n" parse_numLit pushes a blank and `-` onto the rewind  *)
(* queue but leaves `a` as the current character: the input now reads      *)
(* "a- \n", and the source is parsed as the line `a` and the line `-`.     *)
(***************************************************************************)
\* The calls of a production that answered no match and were recorded.
no_matches(op) ==
    {i \in DOMAIN log : log[i].op = op /\ log[i].res = "nomatch"}

C23_NumLitUnreadsMinus ==
    \A i \in no_matches("parse_numLit") :
        LET before == strip_blanks(Rem(log[i].pre))
            after == Rem(log[i].post)
        IN  lexeme_at(before, <<"-">>) =>
                /\ Head(after) = "-"
                /\ strip_blanks(Tail(after)) = strip_blanks(Tail(before))

(***************************************************************************)
(* C24.  In the body of a character or string literal a backslash followed *)
(* by a character outside ' " t v n r b 0 is a hard error; a backslash     *)
(* followed by one of these is one body node with the two characters as    *)
(* its lexeme; any character other than the closing quote and the          *)
(* backslash is one body node with that character.                         *)
(***************************************************************************)
escapes == {"'", "\"", "t", "v", "n", "r", "b", "0"}

\* The lexemes of the body nodes of the literal that text continues, up to
\* the closing quote; a lone backslash stands for an escape that is none,
\* an empty lexeme for a body that the text does not close.
RECURSIVE body_lexemes(_, _)
body_lexemes(text, quote) ==
    IF text = <<>> THEN << <<>> >>
    ELSE IF Head(text) = quote THEN <<>>
    ELSE IF Head(text) # "\\"
    THEN << <<Head(text)>> >> \o body_lexemes(Tail(text), quote)
    ELSE IF Len(text) >= 2 /\ text[2] \in escapes
    THEN << <<"\\", text[2]>> >>
         \o body_lexemes(SubSeq(text, 3, Len(text)), quote)
    ELSE << <<"\\">> >>

holds(lexeme_list, lexeme) ==
    \E i \in DOMAIN lexeme_list : lexeme_list[i] = lexeme

literal_reads(quote, literal, body, refusal) ==
    LET want == body_lexemes(Tail(input), quote)
    IN  IF holds(want, <<>>) \/ (quote = "'" /\ Len(want) # 1 /\ ~holds(want, <<"\\">>))
        THEN TRUE
        ELSE IF holds(want, <<"\\">>)
        THEN pc = "error" /\ err = refusal
        ELSE /\ pc = "done"
             /\ Len(nodes(result, literal)) = 1
             /\ lexemes(nodes(result, literal)[1], {body}) = want

C24_LiteralBodies ==
    (input # <<>> /\ Finished) =>
        /\ Head(input) = "\"" =>
               literal_reads("\"", "strLit", "strChr",
                             "invalid escape sequence or unexpected EOF")
        /\ Head(input) = "'" =>
               literal_reads("'", "chrLit", "chrChr", "unexpected ' or EOF")

\* A string with an escape in its body was accepted.
C24_EscapeInString ==
    /\ input = SrcStr
    /\ pc = "done"
    /\ holds(lexemes(result, {"strChr"}), <<"\\", "n">>)
    /\ holds(lexemes(result, {"strChr"}), <<" ">>)

(***************************************************************************)
(* C25.  For any order of advance() calls and push-backs onto the front of *)
(* the rewind queue, the characters delivered as the current character are *)
(* the pushed-back ones, last pushed first, and then the unread characters *)
(* of the stream in order; advance() takes from the rewind queue while it  *)
(* is not empty, and answers true exactly when afterwards the rewind queue *)
(* is empty and the stream is at end of file (its eof state is set).       *)
(***************************************************************************)
\* The characters still to be delivered after the first n recorded calls,
\* by the rule itself: a push-back goes in front, a delivery takes the first.
RECURSIVE pending(_)
pending(n) ==
    IF n = 0 THEN input
    ELSE IF log[n].op = "push_front" THEN log[n].arg \o pending(n - 1)
    ELSE IF pending(n - 1) = <<>> THEN <<>>
    ELSE Tail(pending(n - 1))

advances == {i \in DOMAIN log : log[i].op = "advance"}

C25_AdvanceDeliversInOrder ==
    \A i \in advances :
        /\ log[i].post.ch = IF pending(i - 1) # <<>> THEN Head(pending(i - 1))
                            ELSE log[i].pre.ch
        /\ log[i].pre.charhistory # <<>> =>
               /\ log[i].post.charhistory = Tail(log[i].pre.charhistory)
               /\ log[i].post.charstream = log[i].pre.charstream
        /\ log[i].res = "true" <=>
               (log[i].post.charhistory = <<>> /\ log[i].post.eof)

\* A pushed-back character was delivered before a character of the stream,
\* and a later call found the input at its end.
C25_QueueStreamEnd ==
    \E i, j, k \in advances :
        /\ i < j /\ j < k
        /\ log[i].pre.charhistory # <<>>
        /\ log[j].pre.charhistory = <<>> /\ log[j].res = "false"
        /\ log[k].res = "true"

(***************************************************************************)
(* C26.  A string literal whose closing quote is missing before the end of *)
(* the input makes parse_strLit raise an error; it neither keeps adding    *)
(* body characters after the input is exhausted nor returns a strLit node. *)
(* Refuted: on `"ab` the failed read at the end of the input leaves `b` as *)
(* the current character; parse_strChr accepts it as a body character      *)
(* again and again, so the loop of parse_strLit never ends.                *)
(***************************************************************************)
C26_OpenStringRaises ==
    (/\ input # <<>>
     /\ Head(input) = "\""
     /\ holds(body_lexemes(Tail(input), "\""), <<>>)
     /\ Finished) => pc = "error"

(***************************************************************************)
(* C27.  A line that follows a nested indented block at the enclosing      *)
(* indentation is an item of its own: in a function body made of `if a`, a *)
(* deeper line `b` and then `c` at the indentation of the `if`, `c` is the *)
(* second body line of the function; at top level a line after a finished  *)
(* block is a further line of prog.                                        *)
(* Refuted: get_block ends the if-block with the newline before `c`        *)
(* already consumed, so the loop of parse_expr that holds the ifElse goes  *)
(* on and takes `c` as its next subexpression: the function has one body   *)
(* line.  At top level `c` is even added to the if-block (C19).            *)
(***************************************************************************)
\* The line that holds just the identifier.
line_of(name) == Mk("line", <<expr_of(Mk("qualIdent", <<ident(name)>>))>>)

C27_LineAfterBlock ==
    /\ (input = SrcFnIf /\ Finished) =>
           /\ pc = "done"
           /\ Len(nodes(result, "fnDecl")) = 1
           /\ count(nodes(result, "fnDecl")[1], "line") = 2
           /\ of_type(nodes(result, "fnDecl")[1], "line")[2] = line_of(<<"c">>)
    /\ (input = SrcIfThen /\ Finished) =>
           /\ pc = "done"
           /\ types(prog) = <<"line", "line", "line">>
           /\ prog.children[3] = line_of(<<"c">>)

(***************************************************************************)
(* C28.  In parse_line a `--` after the line's expression or at the start  *)
(* of the line begins a comment: the characters up to the next newline are *)
(* discarded, nothing of the comment enters the tree, the next line is     *)
(* parsed as usual, and the `--` is never refused as a reserved operator.  *)
(* Refuted: parse_line calls parse_expr before consume_lineComment, and    *)
(* parse_subexpr ends in parse_op, which collects `--` and throws "the     *)
(* operator -- is reserved" on "a -- c\nb\n" and on a line "-- c".         *)
(***************************************************************************)
C28_CommentIsDiscarded ==
    /\ (input = SrcComment /\ Finished) =>
           /\ pc = "done"
           /\ prog.children = <<line_of(<<"a">>), line_of(<<"b">>)>>
    /\ (input = SrcCommentLine /\ Finished) =>
           /\ pc = "done"
           /\ lexemes(prog, {"ident"}) = << <<"x">>, <<"b">> >>

(***************************************************************************)
(* C29.  parse_equals matches only the lexeme `=`: when a pattern is       *)
(* followed by a longer operator that starts with `=`, such as `==` or     *)
(* `=>`, no assignment or binding is recognised and the longer operator    *)
(* stays whole in the input.                                               *)
(* Refuted: parse_equals is expect_char('='), without a look at the next   *)
(* character.  On "a =>b\n" parse_assign takes the `=` and returns an      *)
(* assignment of `>b` to a; on "a == b\n" it takes the first `=` and the   *)
(* second one is then refused as the reserved operator `=`.                *)
(***************************************************************************)
reserved == "the operator is reserved"

C29_EqualsIsWholeOperator ==
    /\ (input = SrcEqEq /\ Finished) =>
           /\ pc = "done"
           /\ nodes(prog, "assign") = <<>>
           /\ lexemes(prog, {"op"}) = << <<"=", "=">> >>
    /\ (input = SrcVarEqEq /\ Finished) => (pc = "error" /\ err # reserved)
    /\ (input = SrcEqGt /\ Finished) => nodes(prog, "assign") = <<>>

(***************************************************************************)
(* C30.  Once the last character of the input has been consumed (rewind    *)
(* queue empty, stream at end of file), no matcher or production succeeds  *)
(* again and nothing is pushed onto the rewind queue: the value left in    *)
(* the current-character slot is never matched or pushed back.             *)
(* Refuted: on "a" without a final newline parse_ident consumes `a`, the   *)
(* read at the end of the input fails and leaves `a` in ch; parse_assign   *)
(* then pushes its pattern and that `a` back, and parse_ident matches it   *)
(* again.                                                                  *)
(***************************************************************************)
\* Nothing is left to read: the queue is empty and a read has failed.
exhausted(c) == c.eof /\ c.charhistory = <<>> /\ c.charstream = <<>>

successes == {"true", "match", "item", "block", "unread"}

C30_NothingAfterTheEnd ==
    \A i \in DOMAIN log :
        exhausted(log[i].pre) =>
            /\ log[i].res \notin successes
            /\ log[i].post.charhistory = <<>>
====
